---- MODULE Spec2Model ----
(***************************************************************************)
(* A model of the service-framework RPC transport.                         *)
(* Client side: ClientComponent (request ids, the event emitter that       *)
(* correlates reply frames with calls, promise calls with their timeout    *)
(* timer, observable calls with their subscriptions and dispose function). *)
(* Server side: NuclideServer (the client table, the handshake of a socket,*)
(* the outbound queue of a client and its acknowledgements, the dispatch   *)
(* of inbound frames).                                                     *)
(***************************************************************************)
EXTENDS Integers, Sequences, FiniteSets, TLC

\* ------------------------------------------------------------------ bounds

\* How many calls (callRemoteFunction, callRemoteMethod, createRemoteObject,
\* disposeRemoteObject) a behaviour makes.
MaxCalls == 2
\* How many subscriptions to observables a behaviour makes.
MaxSubs == 2
\* How many 'next' frames arrive for a subscription while it is subscribed.
MaxNext == 1
\* How many sockets the server accepts.
MaxSockets == 2
\* How many frames are submitted to _sendSocketMessage.
MaxFrames == 2
\* How many frames arrive on one socket, its first frame included.
MaxInbound == 2
\* The calls of the interface unmarshaller followed.
MaxUnmarshals == 3
\* The constructions of a NuclideServer attempted in one process.
MaxServers == 4
\* The calls of reportBusy and the changes of the active pane item followed.
MaxWorks == 2
MaxPaneChanges == 3
\* The process runners a ReactNativeServerManager creates.
MaxRunners == 4
\* The events a ConnectionDialog handles (clicks and handshake callbacks).
MaxDialogEvents == 6
\* The diagnostic runs started, and the calls of invalidateProjectPath.
MaxHackRuns == 2
MaxInvalidates == 1

\* ------------------------------------------------------------------ values

\* SERVICE_FRAMEWORK3_CHANNEL, and some other channel sharing the socket.
SERVICE_FRAMEWORK3_CHANNEL == "service_framework3_rpc"
Channels == {SERVICE_FRAMEWORK3_CHANNEL, "other_channel"}

\* The ReturnType a generated stub passes; "unknown" is any other value, which
\* reaches the default branch of the switch.
ReturnTypes == {"void", "promise", "observable", "unknown"}

\* Payloads carried by a frame.
Data == {"a", "b"}

NoData == "none"

\* The result field of a reply frame: a stream frame ('next' with data,
\* 'completed') or a plain value of a promise call. (A frame with neither
\* error nor result is not among them: for an observable its listener's
\* invariant(result) throws and nothing changes.)
Results ==
  {[type |-> "next", data |-> d] : d \in Data}
    \cup {[type |-> "completed", data |-> NoData]}
    \cup {[type |-> "value", data |-> "a"]}

\* The error field of a reply frame, as encoded by the server: an object with
\* message, code and stack, or a primitive.
Errors ==
  { [kind |-> "object", message |-> "boom", code |-> "EBOOM", stack |-> "st"] }

NoResult == [type |-> "none", data |-> NoData]
NoError == [kind |-> "none", message |-> NoData, code |-> NoData, stack |-> NoData]

\* What a promise was settled with (or not yet).
Unsettled == [how |-> "pending", result |-> NoResult, error |-> NoError]
Resolved(result) == [how |-> "resolved", result |-> result, error |-> NoError]
Rejected(error) == [how |-> "rejected", result |-> NoResult, error |-> error]
\* The string the timeout callback rejects with.
TimeoutError ==
  [kind |-> "string", message |-> "Timeout", code |-> NoData, stack |-> NoData]
NoPromise == [how |-> "none", result |-> NoResult, error |-> NoError]

\* The client ids a socket may send as its first frame.
ClientIds == {"c1", "c2"}

\* client.socket = null, and the closure variable client = null.
NoSocket == 0
NoClient == "null"

\* The object ids the server may have handed out, and the objectId field of a
\* message that has none.
ObjectIds == {"o1", "o2"}
NoObject == "no_object"
\* The object the calls of Spec are made on: _sendMessageAndListenForResult
\* does not read the objectId of its message.
TheObject == "o1"

\* The files a pane item may show, a pane item without a path (or none), and
\* reportBusy without options.onlyForFile.
Files == {"f1", "f2"}
NoItem == "no_item"
NoFile == "no_file"
\* displayedDisposable = null: no message pair is displayed.
NoId == -1

\* SshHandshake.SupportedMethods, and the values a text field may hold.
SupportedMethods == {"SSL_AGENT", "PASSWORD", "PRIVATE_KEY"}
Empty == ""
DefaultRemoteServerCommand == "default_command"
\* The arguments of validateFormInputs a form can give.
Forms ==
  [profileName : {Empty, "profile"},
   username : {Empty, "user"},
   server : {Empty, "host"},
   cwd : {Empty, "dir"},
   sshPort : {Empty, "22"},
   authMethod : SupportedMethods \cup {Empty},
   pathToPrivateKey : {Empty, "key_file"},
   password : {Empty, "secret"},
   remoteServerCommand : {Empty, DefaultRemoteServerCommand, "custom_command"}]
\* The form with nothing filled in.
BlankForm ==
  [profileName |-> Empty, username |-> Empty, server |-> Empty, cwd |-> Empty,
   sshPort |-> Empty, authMethod |-> Empty, pathToPrivateKey |-> Empty,
   password |-> Empty, remoteServerCommand |-> Empty]
\* validateFormInputs has not been called.
NotValidated == [kind |-> "none"]

\* The modes of a ConnectionDialog.
REQUEST_CONNECTION_DETAILS == 1
WAITING_FOR_CONNECTION == 2
REQUEST_AUTHENTICATION_DETAILS == 3
WAITING_FOR_AUTHENTICATION == 4
\* The finish of the initial state: (answers) => {}.
NoFinish == 0
\* What getFormFields() of the connection details form may return: the four
\* fields ok() tests.
DialogFields ==
  [username : {Empty, "user"}, server : {Empty, "host"}, cwd : {Empty, "dir"},
   remoteServerCommand : {Empty, "command"}]

\* The HackLanguage objects, and getHackLanguageForUri finding none.
HackLanguages == {"h1", "h2"}
NoLanguage == "no_language"
\* A diagnostic is its messages' paths: the cause, then the trace.
Diagnostics == {<<p>> : p \in Files} \cup {<<p, q>> : p \in Files, q \in Files}
\* What findDiagnostics may give: no result, or an array of diagnostics.
NoDiagnostics == <<<<NoFile>>>>
DiagnosticResults == {<<>>} \cup {<<d>> : d \in Diagnostics}
\* No entry of _hackLanguageToFilePaths.
NoPaths == [present |-> FALSE, paths |-> {}]

\* this._processRunner = null.
NoRunner == 0

\* NuclideServer._theServer when no server is registered.
NoServer == 0

\* The keys a session's subscriptions object may hold.
SubscriptionKeys == {"sub"}

\* The frames a socket may deliver after its first one: a JSON text (with its
\* protocol field) or a text JSON.parse rejects.
InboundFrames ==
  {[json |-> TRUE, protocol |-> SERVICE_FRAMEWORK3_CHANNEL],
   [json |-> TRUE, protocol |-> "other_channel"],
   [json |-> FALSE, protocol |-> NoData]}

\* ------------------------------------------------------------------ state

VARIABLES
  rpcRequestId,  \* this._rpcRequestId
  listeners,     \* this._emitter: the registered listeners, in registration order
  sent,          \* the frames handed to this._socket.send, in order
  calls,         \* the calls made, in call order, each with its promise and timer
  subs,          \* the subscriptions made to observables, in order
  arrived,       \* per subscription: the data of the 'next' frames for its
                 \* requestId that arrived on the socket while it was subscribed
  closed,        \* close() has been called
  escaped        \* an error was thrown out of _handleSocketMessage

\* The state of NuclideServer and of the sockets it accepted.
VARIABLES
  running,       \* the server process has not exited
  clients,       \* this._clients: client id -> SocketClient
  sockets,       \* the sockets accepted, in order of connection
  nextWrapper,   \* identity of the next {data} object _sendSocketMessage makes
  submitted,     \* per frame submitted to _sendSocketMessage: its client id
  wire,          \* the frames whose send succeeded, with their socket, in order
  dispatched,    \* the calls made of this._serverComponent.handleMessage
  latest         \* per client id: the socket that last sent it as first frame

\* The remote objects of ClientComponent.
VARIABLES
  objectRegistry, \* this._objectRegistry: objectId -> proxy
  proxies,        \* the proxies the unmarshaller made, in order, each with the
                  \* objectId its _idPromise resolves to
  unmarshalled,   \* the calls of the unmarshaller: its argument and its result
  objectOf        \* per call: the objectId of its message

registryVars == <<objectRegistry, proxies, unmarshalled>>

\* The NuclideServer instances of a process.
VARIABLES
  theServer,     \* NuclideServer._theServer
  servers        \* the constructions attempted, in order: what became of each
                 \* and whether a close() of it has thrown

singletonVars == <<theServer, servers>>

\* A BusySignalProviderBase and the workspace it observes.
VARIABLES
  nextId,        \* this._nextId
  messages,      \* what was published on this.messages, in order (with the
                 \* reportBusy call it was published for)
  works,         \* the calls of reportBusy, in order
  activeItem,    \* the path of the active pane item
  paneChanges    \* how often the active pane item has changed

busyVars == <<nextId, messages, works, activeItem, paneChanges>>

\* The connection profile form.
VARIABLES
  form,          \* the arguments validateFormInputs is given
  validation     \* what validateFormInputs returned

formVars == <<form, validation>>

\* A ReactNativeServerManager.
VARIABLES
  processRunner, \* this._processRunner
  runners,       \* the process runners _createProcessRunner made, in order
  starting,      \* the calls of _startServer suspended at their await, in
                 \* the order they will resume, each with the runner it made
  nodeExecutorServer \* this._nodeExecutorServer has been made

managerVars == <<processRunner, runners, starting, nodeExecutorServer>>

\* A ConnectionDialog and its SshHandshake.
VARIABLES
  mode,          \* this.state.mode
  finish,        \* this.state.finish: the authentication request it belongs to
  connecting,    \* the handshake was asked to connect and has not ended
  dialogOpen,    \* close() has not been called
  effects,       \* the calls made on the handshake and on the props, in order
  dialogEvents   \* how many events the dialog has handled

dialogVars == <<mode, finish, connecting, dialogOpen, effects, dialogEvents>>

\* A HackDiagnosticsProvider.
VARIABLES
  hackLanguageToFilePaths,  \* this._hackLanguageToFilePaths
  hackRuns,                 \* the calls of _runDiagnosticsImpl and where each is
  published,                \* what was given to this._providerBase, in order
  invalidates               \* how many times invalidateProjectPath was called

hackVars == <<hackLanguageToFilePaths, hackRuns, published, invalidates>>

clientVars ==
  <<rpcRequestId, listeners, sent, calls, subs, arrived, closed, escaped>>

serverVars ==
  <<running, clients, sockets, nextWrapper, submitted, wire, dispatched, latest>>

\* The groups no action of ClientComponent._sendMessageAndListenForResult or of
\* NuclideServer touches.
restVars ==
  <<registryVars, singletonVars, busyVars, formVars, managerVars, dialogVars,
    hackVars>>

vars == <<clientVars, serverVars, objectOf, restVars>>

\* ------------------------------------------------------------ ClientComponent

\* decodeError without resultError.code = encodedError.code.
DecodeErrorDropsCode(encodedError) ==
  IF encodedError.kind = "object"
    THEN [kind |-> "Error", message |-> encodedError.message,
          code |-> NoData, stack |-> encodedError.stack]
    ELSE encodedError

\* decodeError: an encoded object becomes an Error with the same message, code
\* and stack; anything else is returned as it is.
DecodeError(encodedError) ==
  IF encodedError.kind = "object"
    THEN [kind |-> "Error", message |-> encodedError.message,
          code |-> encodedError.code, stack |-> encodedError.stack]
    ELSE encodedError

\* _generateRequestId without the increment.
GenerateRequestIdStuck(n) == [id |-> n, next |-> n]

\* _generateRequestId with ++this._rpcRequestId.
GenerateRequestIdPre(n) == [id |-> n + 1, next |-> n + 1]

\* _generateRequestId: return this._rpcRequestId++ (the id, and the counter after).
GenerateRequestId(n) == [id |-> n, next |-> n + 1]

\* removeAllListeners() without the event: every listener goes.
RemoveEveryListener(ls, requestId) == <<>>

\* EventEmitter.removeAllListeners(requestId.toString()).
RemoveAllListeners(ls, requestId) ==
  SelectSeq(ls, LAMBDA l : l.event # requestId)

\* emit() reaching the listeners of every event.
ListenersOfAnyEvent(ls, requestId) == ls

\* EventEmitter.listeners(event): the listeners emit() calls, a copy taken
\* before the first of them runs.
ListenersOf(ls, requestId) ==
  SelectSeq(ls, LAMBDA l : l.event = requestId)

\* A Promise settles once: resolve and reject do nothing on a settled promise.
Settle(p, outcome) == IF p.how = "pending" THEN outcome ELSE p

\* The dispose function without removeAllListeners.
DisposeObservableKeepsListeners(st, requestId) ==
  [st EXCEPT
    !.sent = Append(st.sent, [type |-> "DisposeObservable", requestId |-> requestId])]

\* The dispose function without the DisposeObservable frame.
DisposeObservableSilent(st, requestId) ==
  [st EXCEPT !.listeners = SelectSeq(st.listeners, LAMBDA l : l.event # requestId)]

\* The dispose function of an observable subscription (lines 246-257).
DisposeObservable(st, requestId) ==
  [st EXCEPT
    !.listeners = RemoveAllListeners(st.listeners, requestId),
    !.sent = Append(st.sent, [type |-> "DisposeObservable", requestId |-> requestId])]

\* The listener of a promise call registered with on(): it stays registered.
PromiseListenerOn(st, l, msg) ==
  [st EXCEPT
    !.calls[l.ref].promise =
        Settle(st.calls[l.ref].promise,
               IF msg.hadError THEN Rejected(DecodeError(msg.error))
                               ELSE Resolved(msg.result))]

\* The listener of a promise call, registered with once(): the emitter removes
\* it, then it resolves or rejects the promise.
PromiseListener(st, l, msg) ==
  LET c == l.ref IN
  [st EXCEPT
    !.listeners = SelectSeq(st.listeners, LAMBDA x : x # l),
    !.calls[c].promise =
        Settle(st.calls[c].promise,
               IF msg.hadError THEN Rejected(DecodeError(msg.error))
                               ELSE Resolved(msg.result))]

\* The listener of an observable subscription whose observer does not run the
\* dispose function when the stream completes.
ObservableListenerNoDisposeOnCompleted(st, l, msg) ==
  LET s == l.ref IN
  IF st.subs[s].state # "live" THEN st
  ELSE IF msg.hadError
    THEN DisposeObservable(
           [st EXCEPT !.subs[s].state = "errored",
                      !.subs[s].error = DecodeError(msg.error)], l.event)
  ELSE IF msg.result.type = "completed"
    THEN [st EXCEPT !.subs[s].state = "completed"]
  ELSE IF msg.result.type = "next"
    THEN [st EXCEPT !.subs[s].received = Append(@, msg.result.data)]
  ELSE st

\* The listener of an observable subscription, registered with on(). The
\* observer it feeds is stopped by its first terminal signal, which also runs
\* the dispose function.
ObservableListener(st, l, msg) ==
  LET s == l.ref IN
  IF st.subs[s].state # "live" THEN st
  ELSE IF msg.hadError
    THEN DisposeObservable(
           [st EXCEPT !.subs[s].state = "errored",
                      !.subs[s].error = DecodeError(msg.error)], l.event)
  ELSE IF msg.result.type = "completed"
    THEN DisposeObservable([st EXCEPT !.subs[s].state = "completed"], l.event)
  ELSE IF msg.result.type = "next"
    THEN [st EXCEPT !.subs[s].received = Append(@, msg.result.data)]
  ELSE st

Listener(st, l, msg) ==
  IF l.kind = "once" THEN PromiseListener(st, l, msg)
                     ELSE ObservableListener(st, l, msg)

\* EventEmitter.emit: call each listener of the event, in registration order.
RECURSIVE Emit(_, _, _)
Emit(st, ls, msg) ==
  IF ls = <<>> THEN st
  ELSE Emit(Listener(st, Head(ls), msg), Tail(ls), msg)

St == [listeners |-> listeners, calls |-> calls, subs |-> subs, sent |-> sent]

\* ------------------------------------------------------------------ actions

\* Everything but the form.
BaseInit ==
  /\ rpcRequestId = 1
  /\ listeners = <<>>
  /\ sent = <<>>
  /\ calls = <<>>
  /\ subs = <<>>
  /\ arrived = <<>>
  /\ closed = FALSE
  /\ escaped = FALSE
  /\ running = TRUE
  /\ clients = <<>>
  /\ sockets = <<>>
  /\ nextWrapper = 1
  /\ submitted = <<>>
  /\ wire = <<>>
  /\ dispatched = {}
  /\ latest = [id \in ClientIds |-> NoSocket]
  /\ objectRegistry = <<>>
  /\ proxies = <<>>
  /\ unmarshalled = <<>>
  /\ objectOf = <<>>
  /\ theServer = NoServer
  /\ servers = <<>>
  /\ nextId = 0
  /\ messages = <<>>
  /\ works = <<>>
  /\ activeItem = NoItem
  /\ paneChanges = 0
  /\ processRunner = NoRunner
  /\ runners = <<>>
  /\ starting = <<>>
  /\ nodeExecutorServer = FALSE
  /\ mode = REQUEST_CONNECTION_DETAILS
  /\ finish = NoFinish
  /\ connecting = FALSE
  /\ dialogOpen = TRUE
  /\ effects = <<>>
  /\ dialogEvents = 0
  /\ hackLanguageToFilePaths = [h \in HackLanguages |-> NoPaths]
  /\ hackRuns = <<>>
  /\ published = <<>>
  /\ invalidates = 0

Init ==
  /\ BaseInit
  /\ form = BlankForm
  /\ validation = NotValidated

\* The switch without the return of case 'void': a void call falls through to
\* case 'promise', sends the frame again, registers a listener and a timer.
SendMessageAndListenForResultFallsThrough(type, objectId, returnType) ==
  LET g == GenerateRequestId(rpcRequestId)
      message == [type |-> type, requestId |-> g.id]
      awaited == returnType \in {"void", "promise"}
      c == Len(calls) + 1
      call == [id |-> g.id, type |-> type, returnType |-> returnType,
               promise |-> IF awaited THEN Unsettled ELSE NoPromise,
               timer |-> IF awaited THEN "armed" ELSE "none"]
  IN
  /\ Len(calls) < MaxCalls
  /\ rpcRequestId' = g.next
  /\ calls' = Append(calls, call)
  /\ sent' = IF returnType = "void" THEN Append(Append(sent, message), message)
             ELSE IF returnType = "promise" THEN Append(sent, message)
             ELSE sent
  /\ listeners' =
       IF awaited
         THEN Append(listeners, [event |-> g.id, kind |-> "once", ref |-> c])
         ELSE listeners
  /\ objectOf' = Append(objectOf, objectId)
  /\ UNCHANGED <<subs, arrived, closed, escaped, serverVars, restVars>>

\* _sendMessageAndListenForResult(message, returnType, timeoutMessage), for the
\* message of a call that was just given its requestId.
SendMessageAndListenForResult(type, objectId, returnType) ==
  LET g == GenerateRequestId(rpcRequestId)
      message == [type |-> type, requestId |-> g.id]
      c == Len(calls) + 1
      call == [id |-> g.id, type |-> type, returnType |-> returnType,
               promise |-> IF returnType = "promise" THEN Unsettled ELSE NoPromise,
               timer |-> IF returnType = "promise" THEN "armed" ELSE "none"]
  IN
  /\ Len(calls) < MaxCalls
  /\ rpcRequestId' = g.next
  /\ calls' = Append(calls, call)
  /\ sent' = IF returnType \in {"void", "promise"} THEN Append(sent, message) ELSE sent
  /\ listeners' =
       IF returnType = "promise"
         THEN Append(listeners, [event |-> g.id, kind |-> "once", ref |-> c])
         ELSE listeners
  /\ objectOf' = Append(objectOf, objectId)
  /\ UNCHANGED <<subs, arrived, closed, escaped, serverVars, restVars>>

CallRemoteFunction(returnType) ==
  SendMessageAndListenForResult("FunctionCall", NoObject, returnType)

\* callRemoteMethod(objectId, methodName, returnType, args).
CallRemoteMethod(objectId, returnType) ==
  SendMessageAndListenForResult("MethodCall", objectId, returnType)

CreateRemoteObject ==
  SendMessageAndListenForResult("NewObject", NoObject, "promise")

\* disposeRemoteObject(objectId).
DisposeRemoteObject(objectId) ==
  SendMessageAndListenForResult("DisposeObject", objectId, "promise")

\* Subscribing to the Observable an 'observable' call returned: the function
\* given to Observable.create runs (lines 225-243).
Subscribe(c) ==
  LET message == [type |-> calls[c].type, requestId |-> calls[c].id]
      s == Len(subs) + 1
  IN
  /\ calls[c].returnType = "observable"
  /\ Len(subs) < MaxSubs
  /\ sent' = Append(sent, message)
  /\ listeners' = Append(listeners, [event |-> calls[c].id, kind |-> "on", ref |-> s])
  /\ subs' = Append(subs, [call |-> c, requestId |-> calls[c].id, state |-> "live",
                           received |-> <<>>, error |-> NoError])
  /\ arrived' = Append(arrived, <<>>)
  /\ UNCHANGED <<rpcRequestId, calls, closed, escaped, serverVars, objectOf, restVars>>

\* Disposing a live subscription: the dispose function runs (lines 246-257).
Unsubscribe(s) ==
  LET st == DisposeObservable([St EXCEPT !.subs[s].state = "unsubscribed"],
                              subs[s].requestId)
  IN
  /\ subs[s].state = "live"
  /\ listeners' = st.listeners
  /\ sent' = st.sent
  /\ subs' = st.subs
  /\ UNCHANGED <<rpcRequestId, calls, arrived, closed, escaped, serverVars, objectOf, restVars>>

\* The timeout callback without removeAllListeners.
TimerFireKeepsListener(c) ==
  /\ c \in DOMAIN calls
  /\ calls[c].timer = "armed"
  /\ calls' = [calls EXCEPT ![c].timer = "fired",
                            ![c].promise = Settle(@, Rejected(TimeoutError))]
  /\ UNCHANGED <<rpcRequestId, listeners, sent, subs, arrived, closed, escaped,
                  serverVars, objectOf, restVars>>

\* The timeout callback without reject.
TimerFireNoReject(c) ==
  /\ c \in DOMAIN calls
  /\ calls[c].timer = "armed"
  /\ listeners' = SelectSeq(listeners, LAMBDA l : l.event # calls[c].id)
  /\ calls' = [calls EXCEPT ![c].timer = "fired"]
  /\ UNCHANGED <<rpcRequestId, sent, subs, arrived, closed, escaped, serverVars,
                  objectOf, restVars>>

\* The setTimeout callback of a promise call (lines 216-222).
TimerFire(c) ==
  /\ c \in DOMAIN calls
  /\ calls[c].timer = "armed"
  /\ listeners' = RemoveAllListeners(listeners, calls[c].id)
  /\ calls' = [calls EXCEPT ![c].timer = "fired",
                            ![c].promise = Settle(@, Rejected(TimeoutError))]
  /\ UNCHANGED <<rpcRequestId, sent, subs, arrived, closed, escaped, serverVars,
                  objectOf, restVars>>

\* The data of a frame that is a 'next' frame of the RPC channel.
IsNext(msg) ==
  /\ msg.channel = SERVICE_FRAMEWORK3_CHANNEL
  /\ ~msg.hadError
  /\ msg.result.type = "next"

\* _handleSocketMessage(message): a frame arrives from the socket.
HandleSocketMessage(msg) ==
  LET st == IF msg.channel = SERVICE_FRAMEWORK3_CHANNEL
              THEN Emit(St, ListenersOf(listeners, msg.requestId), msg)
              ELSE St   \* the invariant throws (escaped); nothing is emitted
  IN
  /\ IsNext(msg) =>
       \A s \in DOMAIN subs :
         subs[s].requestId = msg.requestId /\ subs[s].state = "live"
           => Len(arrived[s]) < MaxNext
  /\ UNCHANGED <<rpcRequestId, closed, serverVars, objectOf, restVars>>
  /\ escaped' = (escaped \/ msg.channel # SERVICE_FRAMEWORK3_CHANNEL)
  /\ arrived' =
       [s \in DOMAIN arrived |->
          IF IsNext(msg) /\ subs[s].requestId = msg.requestId /\ subs[s].state = "live"
            THEN Append(arrived[s], msg.result.data)
            ELSE arrived[s]]
  /\ listeners' = st.listeners
  /\ calls' = st.calls
  /\ subs' = st.subs
  /\ sent' = st.sent

\* close(): this._socket.close().
Close ==
  /\ ~closed
  /\ closed' = TRUE
  /\ UNCHANGED <<rpcRequestId, listeners, sent, calls, subs, arrived, escaped,
                  serverVars, objectOf, restVars>>

\* The frames that can arrive on the RPC channel: any requestId a call may
\* have been given, answered or not, with an error or a result.
RpcMessages ==
  [channel : {SERVICE_FRAMEWORK3_CHANNEL}, requestId : 1..MaxCalls,
   hadError : {TRUE}, error : Errors, result : {NoResult}]
    \cup
  [channel : {SERVICE_FRAMEWORK3_CHANNEL}, requestId : 1..MaxCalls,
   hadError : {FALSE}, error : {NoError}, result : Results]

\* The frames of another channel: the handler reads nothing but their channel.
OtherMessages ==
  [channel : Channels \ {SERVICE_FRAMEWORK3_CHANNEL}, requestId : 1..MaxCalls,
   hadError : {FALSE}, error : {NoError},
   result : {[type |-> "next", data |-> "a"]}]

Messages == RpcMessages \cup OtherMessages

Next ==
  \/ \E rt \in ReturnTypes : CallRemoteFunction(rt)
  \/ \E rt \in ReturnTypes : CallRemoteMethod(TheObject, rt)
  \/ CreateRemoteObject
  \/ DisposeRemoteObject(TheObject)
  \/ \E c \in DOMAIN calls : Subscribe(c)
  \/ \E s \in DOMAIN subs : Unsubscribe(s)
  \/ \E c \in DOMAIN calls : TimerFire(c)
  \/ \E msg \in RpcMessages : HandleSocketMessage(msg)
  \/ Close

\* The client on a socket that carries the RPC channel only.
Spec == Init /\ [][Next]_vars

\* The socket also delivers the frames of other channels. Such a frame changes
\* nothing but escaped, which no action reads.
ChannelNext ==
  \/ Next
  \/ \E msg \in OtherMessages : HandleSocketMessage(msg)

ChannelSpec == Init /\ [][ChannelNext]_vars

\* The timers are the runtime's: an armed timer eventually fires.
FairSpec == Spec /\ \A c \in 1..MaxCalls : WF_vars(TimerFire(c))

\* ------------------------------------------------------------ NuclideServer

\* The part of the server state _sendSocketMessage works on.
Sv == [clients |-> clients, sockets |-> sockets, nextWrapper |-> nextWrapper]

\* A newly accepted socket: no first frame yet, nothing handed to send().
NewSocket ==
  [state |-> "open", client |-> NoClient, broken |-> FALSE,
   inflight |-> <<>>, nrecv |-> 0]

\* The record line 322 makes for an id the table does not hold.
NewClient(clientId) ==
  [subscriptions |-> {}, id |-> clientId, messageQueue |-> <<>>,
   socket |-> NoSocket]

\* _sendSocketMessage returning before the push when there is no socket.
SendSocketMessageDrops(sv, id, data) ==
  LET message == [w |-> sv.nextWrapper, data |-> data]
      socket == sv.clients[id].socket
  IN
  IF socket = NoSocket THEN [sv EXCEPT !.nextWrapper = @ + 1]
  ELSE [sv EXCEPT !.clients[id].messageQueue = Append(@, message),
                  !.nextWrapper = @ + 1,
                  !.sockets[socket].inflight = Append(@, message)]

\* _sendSocketMessage(client, data): wrap, push on the queue, and with a socket
\* hand the frame to socket.send (its callback is SendCallback).
SendSocketMessage(sv, id, data) ==
  LET message == [w |-> sv.nextWrapper, data |-> data]
      socket == sv.clients[id].socket
      pushed == [sv EXCEPT !.clients[id].messageQueue = Append(@, message),
                           !.nextWrapper = @ + 1]
  IN
  IF socket = NoSocket THEN pushed
  ELSE [pushed EXCEPT !.sockets[socket].inflight = Append(@, message)]

\* The queued messages re-sent last first (taken with pop()).
RECURSIVE ForEachSendReversed(_, _, _)
ForEachSendReversed(sv, id, queue) ==
  IF queue = <<>> THEN sv
  ELSE ForEachSendReversed(
         SendSocketMessage(sv, id, queue[Len(queue)].data), id,
         SubSeq(queue, 1, Len(queue) - 1))

\* forEach(message => this._sendSocketMessage(localClient, message.data)).
RECURSIVE ForEachSend(_, _, _)
ForEachSend(sv, id, queue) ==
  IF queue = <<>> THEN sv
  ELSE ForEachSend(SendSocketMessage(sv, id, Head(queue).data), id, Tail(queue))

\* messageQueue.indexOf(message) and splice(messageIndex, 1): the queue
\* without that very object, if it holds it.
RemoveMessage(queue, message) ==
  SelectSeq(queue, LAMBDA m : m.w # message.w)

\* wss.on('connection'): _onConnection(socket) registers the handlers of a
\* newly accepted socket.
OnConnection ==
  /\ running
  /\ Len(sockets) < MaxSockets
  /\ sockets' = Append(sockets, NewSocket)
  /\ UNCHANGED <<running, clients, nextWrapper, submitted, wire, dispatched,
                  latest, clientVars, objectOf, restVars>>

\* The first-frame handler without client.socket.close(): the previous socket
\* is replaced but left open.
OnFirstMessageKeepsPrevious(socket, clientId) ==
  LET client == IF clientId \in DOMAIN clients THEN clients[clientId]
                                                ELSE NewClient(clientId)
      attached ==
        [clients |-> (clientId :> [client EXCEPT !.socket = socket,
                                                 !.messageQueue = <<>>]) @@ clients,
         sockets |-> [sockets EXCEPT ![socket].client = clientId,
                                     ![socket].nrecv = 1],
         nextWrapper |-> nextWrapper]
      sv == ForEachSend(attached, clientId, client.messageQueue)
  IN
  /\ running
  /\ sockets[socket].state = "open"
  /\ sockets[socket].nrecv = 0
  /\ clients' = sv.clients
  /\ sockets' = sv.sockets
  /\ nextWrapper' = sv.nextWrapper
  /\ latest' = [latest EXCEPT ![clientId] = socket]
  /\ UNCHANGED <<running, submitted, wire, dispatched, clientVars, objectOf, restVars>>

\* The first-frame handler reading the queue with slice(0): the queued
\* messages stay in the queue beside their re-sent copies.
OnFirstMessageSlice(socket, clientId) ==
  LET client == IF clientId \in DOMAIN clients THEN clients[clientId]
                                                ELSE NewClient(clientId)
      previous == client.socket
      closedPrevious ==
        IF previous # NoSocket THEN [sockets EXCEPT ![previous].state = "closing"]
                               ELSE sockets
      attached ==
        [clients |-> (clientId :> [client EXCEPT !.socket = socket]) @@ clients,
         sockets |-> [closedPrevious EXCEPT ![socket].client = clientId,
                                            ![socket].nrecv = 1],
         nextWrapper |-> nextWrapper]
      sv == ForEachSend(attached, clientId, client.messageQueue)
  IN
  /\ running
  /\ sockets[socket].state = "open"
  /\ sockets[socket].nrecv = 0
  /\ clients' = sv.clients
  /\ sockets' = sv.sockets
  /\ nextWrapper' = sv.nextWrapper
  /\ latest' = [latest EXCEPT ![clientId] = socket]
  /\ UNCHANGED <<running, submitted, wire, dispatched, clientVars, objectOf, restVars>>

\* The once('message') handler (lines 320-334): the first frame of a socket.
OnFirstMessage(socket, clientId) ==
  LET client == IF clientId \in DOMAIN clients THEN clients[clientId]
                                                ELSE NewClient(clientId)
      previous == client.socket
      closedPrevious ==
        IF previous # NoSocket THEN [sockets EXCEPT ![previous].state = "closing"]
                               ELSE sockets
      attached ==
        [clients |-> (clientId :> [client EXCEPT !.socket = socket,
                                                 !.messageQueue = <<>>]) @@ clients,
         sockets |-> [closedPrevious EXCEPT ![socket].client = clientId,
                                            ![socket].nrecv = 1],
         nextWrapper |-> nextWrapper]
      sv == ForEachSend(attached, clientId, client.messageQueue)
  IN
  /\ running
  /\ sockets[socket].state = "open"
  /\ sockets[socket].nrecv = 0
  /\ clients' = sv.clients
  /\ sockets' = sv.sockets
  /\ nextWrapper' = sv.nextWrapper
  /\ latest' = [latest EXCEPT ![clientId] = socket]
  /\ UNCHANGED <<running, submitted, wire, dispatched, clientVars, objectOf, restVars>>

\* this._serverComponent.handleMessage(client, message) for the next frame of
\* a socket: the call is recorded with the socket, the session the handler
\* was registered with, the rank of the frame on its socket, and whether the
\* socket is the one attached to the session at that moment.
HandleMessage(socket) ==
  [socket |-> socket,
   client |-> sockets[socket].client,
   frame |-> sockets[socket].nrecv + 1,
   attached |-> /\ sockets[socket].client \in DOMAIN clients
                /\ clients[sockets[socket].client].socket = socket]

\* The on('message') handler registered by _onConnection itself, beside the
\* once('message') handler: it also runs for the first frame.
OnSocketMessageFromConnection(socket, frame) ==
  LET wellFormed == frame.json /\ frame.protocol = SERVICE_FRAMEWORK3_CHANNEL IN
  /\ running
  /\ sockets[socket].state \in {"open", "closing"}
  /\ sockets[socket].nrecv < MaxInbound
  /\ sockets' = [sockets EXCEPT ![socket].nrecv = @ + 1]
  /\ dispatched' =
       IF wellFormed
         THEN dispatched \cup {HandleMessage(socket)}
         ELSE dispatched
  /\ running' = wellFormed
  /\ UNCHANGED <<clients, nextWrapper, submitted, wire, latest, clientVars, objectOf, restVars>>

\* The on('message') handler still called after the socket's close event.
OnSocketMessageAfterClose(socket, frame) ==
  LET wellFormed == frame.json /\ frame.protocol = SERVICE_FRAMEWORK3_CHANNEL IN
  /\ running
  /\ sockets[socket].nrecv >= 1
  /\ sockets[socket].nrecv < MaxInbound
  /\ sockets' = [sockets EXCEPT ![socket].nrecv = @ + 1]
  /\ dispatched' =
       IF wellFormed THEN dispatched \cup {HandleMessage(socket)} ELSE dispatched
  /\ running' = wellFormed
  /\ UNCHANGED <<clients, nextWrapper, submitted, wire, latest, clientVars,
                  objectOf, restVars>>

\* The on('message') handler of a socket that sent its first frame:
\* _onSocketMessage(localClient, message). JSON.parse or the invariant throw
\* out of the event handler, and the uncaughtException handler (lines 64-70)
\* ends the process.
OnSocketMessage(socket, frame) ==
  LET wellFormed == frame.json /\ frame.protocol = SERVICE_FRAMEWORK3_CHANNEL IN
  /\ running
  /\ sockets[socket].state \in {"open", "closing"}
  /\ sockets[socket].nrecv >= 1
  /\ sockets[socket].nrecv < MaxInbound
  /\ sockets' = [sockets EXCEPT ![socket].nrecv = @ + 1]
  /\ dispatched' =
       IF wellFormed
         THEN dispatched \cup {HandleMessage(socket)}
         ELSE dispatched
  /\ running' = wellFormed
  /\ UNCHANGED <<clients, nextWrapper, submitted, wire, latest, clientVars, objectOf, restVars>>

\* The close handler without the comparison client.socket === socket.
OnCloseDetachesAlways(socket) ==
  LET client == sockets[socket].client IN
  /\ running
  /\ sockets[socket].state \in {"open", "closing"}
  /\ sockets' = [sockets EXCEPT ![socket].state = "closed"]
  /\ clients' =
       IF client # NoClient
         THEN [clients EXCEPT ![client].socket = NoSocket]
         ELSE clients
  /\ UNCHANGED <<running, nextWrapper, submitted, wire, dispatched, latest,
                  clientVars, objectOf, restVars>>

\* The close handler emptying the queue of the session it detaches.
OnCloseDropsQueue(socket) ==
  LET client == sockets[socket].client IN
  /\ running
  /\ sockets[socket].state \in {"open", "closing"}
  /\ sockets' = [sockets EXCEPT ![socket].state = "closed"]
  /\ clients' =
       IF client # NoClient /\ clients[client].socket = socket
         THEN [clients EXCEPT ![client].socket = NoSocket,
                              ![client].messageQueue = <<>>]
         ELSE clients
  /\ UNCHANGED <<running, nextWrapper, submitted, wire, dispatched, latest,
                  clientVars, objectOf, restVars>>

\* The socket.on('close') handler (lines 336-344).
OnClose(socket) ==
  LET client == sockets[socket].client IN
  /\ running
  /\ sockets[socket].state \in {"open", "closing"}
  /\ sockets' = [sockets EXCEPT ![socket].state = "closed"]
  /\ clients' =
       IF client # NoClient /\ clients[client].socket = socket
         THEN [clients EXCEPT ![client].socket = NoSocket]
         ELSE clients
  /\ UNCHANGED <<running, nextWrapper, submitted, wire, dispatched, latest,
                  clientVars, objectOf, restVars>>

\* The callback of socket.send that takes the message off the queue whether
\* the send failed or not.
SendCallbackRemovesAlways(socket, err) ==
  LET message == Head(sockets[socket].inflight)
      id == sockets[socket].client
  IN
  /\ running
  /\ socket \in DOMAIN sockets
  /\ sockets[socket].inflight # <<>>
  /\ sockets[socket].broken => err
  /\ sockets' = [sockets EXCEPT ![socket].inflight = Tail(@),
                                 ![socket].broken = @ \/ err]
  /\ wire' = IF err THEN wire
                     ELSE Append(wire, [socket |-> socket, data |-> message.data])
  /\ clients' = [clients EXCEPT ![id].messageQueue = RemoveMessage(@, message)]
  /\ UNCHANGED <<running, nextWrapper, submitted, dispatched, latest, clientVars,
                  objectOf, restVars>>

\* The callback of socket.send (lines 362-372), called for the sends of a
\* socket in the order they were made. A socket that failed one send fails
\* the later ones.
SendCallback(socket, err) ==
  LET message == Head(sockets[socket].inflight)
      id == sockets[socket].client
  IN
  /\ running
  /\ socket \in DOMAIN sockets
  /\ sockets[socket].inflight # <<>>
  /\ sockets[socket].broken => err
  /\ sockets' = [sockets EXCEPT ![socket].inflight = Tail(@),
                                 ![socket].broken = @ \/ err]
  /\ wire' = IF err THEN wire
                     ELSE Append(wire, [socket |-> socket, data |-> message.data])
  /\ clients' =
       IF err THEN clients
       ELSE [clients EXCEPT ![id].messageQueue = RemoveMessage(@, message)]
  /\ UNCHANGED <<running, nextWrapper, submitted, dispatched, latest, clientVars,
                  objectOf, restVars>>

\* The server component calls _sendSocketMessage(client, data) with a frame
\* for a client of the table; the frame is named by its rank of submission.
ServerComponentSends(id) ==
  LET data == Len(submitted) + 1
      sv == SendSocketMessage(Sv, id, data)
  IN
  /\ running
  /\ id \in DOMAIN clients
  /\ Len(submitted) < MaxFrames
  /\ submitted' = Append(submitted, id)
  /\ clients' = sv.clients
  /\ sockets' = sv.sockets
  /\ nextWrapper' = sv.nextWrapper
  /\ UNCHANGED <<running, wire, dispatched, latest, clientVars, objectOf, restVars>>

\* The server component registers or removes a subscription of a session.
ServerComponentSubscribes(id, key) ==
  /\ running
  /\ id \in DOMAIN clients
  /\ clients' = [clients EXCEPT ![id].subscriptions =
                    IF key \in @ THEN @ \ {key} ELSE @ \cup {key}]
  /\ UNCHANGED <<running, sockets, nextWrapper, submitted, wire, dispatched,
                  latest, clientVars, objectOf, restVars>>

ServerNext ==
  \/ OnConnection
  \/ \E socket \in DOMAIN sockets, clientId \in ClientIds :
       OnFirstMessage(socket, clientId)
  \/ \E socket \in DOMAIN sockets, frame \in InboundFrames :
       OnSocketMessage(socket, frame)
  \/ \E socket \in DOMAIN sockets : OnClose(socket)
  \/ \E socket \in DOMAIN sockets, err \in BOOLEAN : SendCallback(socket, err)
  \/ \E id \in ClientIds : ServerComponentSends(id)
  \/ \E id \in ClientIds, key \in SubscriptionKeys :
       ServerComponentSubscribes(id, key)

\* The server alone: no ClientComponent call is made.
ServerSpec == Init /\ [][ServerNext]_vars

\* The callback of a send is eventually called.
FairServerSpec ==
  ServerSpec /\ \A socket \in 1..MaxSockets :
                  WF_vars(\E err \in BOOLEAN : SendCallback(socket, err))

\* ------------------------------------------------------------------ claims

HasListener(ls, requestId) == \E i \in DOMAIN ls : ls[i].event = requestId

\* The listeners registered under other events than requestId.
OtherListeners(ls, requestId) == SelectSeq(ls, LAMBDA l : l.event # requestId)

IsPromise(c) == calls[c].returnType = "promise"

IsPending(c) == calls[c].promise.how = "pending"

\* C1 as stated: every frame handed to the socket bears a requestId that no
\* frame sent earlier bore.
C1_EveryFrameHasAFreshId ==
  \A i, j \in DOMAIN sent : i # j => sent[i].requestId # sent[j].requestId

\* C1 as amended: no two calls are given the same requestId and every frame
\* bears the requestId of a call that was made; a requestId is repeated only
\* among the frames of one observable call, which are its request frame (sent
\* once per subscription) and the DisposeObservable frames of its subscriptions.
C1_IdsRepeatOnlyWithinAnObservableCall ==
  /\ \A c, d \in DOMAIN calls : c # d => calls[c].id # calls[d].id
  /\ \A i \in DOMAIN sent : \E c \in DOMAIN calls :
       /\ calls[c].id = sent[i].requestId
       /\ sent[i].type \in {calls[c].type, "DisposeObservable"}
       /\ sent[i].type = "DisposeObservable" => calls[c].returnType = "observable"
  /\ \A i, j \in DOMAIN sent :
       i # j /\ sent[i].requestId = sent[j].requestId =>
         \E c \in DOMAIN calls :
           calls[c].id = sent[i].requestId /\ calls[c].returnType = "observable"

\* Two calls have sent frames, and one of them is an observable call whose
\* subscription was disposed.
C1_Witness ==
  \E i, j, k \in DOMAIN sent :
    /\ i < j
    /\ sent[i].requestId = sent[j].requestId
    /\ sent[j].type = "DisposeObservable"
    /\ sent[k].requestId # sent[i].requestId

\* C2: the request ids given to successive calls are 1, 2, 3, ... in call
\* order, whichever of the four operations makes the call, and the counter is
\* always one more than the number of calls made.
C2_RequestIdsCountFromOne ==
  /\ rpcRequestId = Len(calls) + 1
  /\ \A c \in DOMAIN calls : calls[c].id = c

\* Calls of different operations and return types were made.
C2_Witness ==
  /\ Len(calls) = MaxCalls
  /\ \E c, d \in DOMAIN calls :
       /\ c < d
       /\ calls[c].type # calls[d].type
       /\ calls[c].returnType # calls[d].returnType
       /\ calls[d].id = calls[c].id + (d - c)

\* C3: a pending promise call is settled by the first reply frame carrying
\* its requestId (resolved with the result when hadError is false, rejected
\* with the decoded error when it is true) and its listener is removed with
\* that frame; once settled, no step (a later frame, the timer) changes what
\* the promise was settled with, and no listener is registered for it again.
C3_PromiseSettledOnce ==
  [][\A c \in DOMAIN calls : IsPromise(c) =>
       /\ IsPending(c) =>
            \A msg \in Messages :
              ( /\ msg.channel = SERVICE_FRAMEWORK3_CHANNEL
                /\ msg.requestId = calls[c].id
                /\ HandleSocketMessage(msg) )
              => /\ calls'[c].promise =
                      IF msg.hadError THEN Rejected(DecodeError(msg.error))
                                      ELSE Resolved(msg.result)
                 /\ ~HasListener(listeners', calls[c].id)
       /\ ~IsPending(c) =>
            /\ calls'[c].promise = calls[c].promise
            /\ ~HasListener(listeners', calls[c].id)
    ]_vars

\* A promise was resolved by a reply and its timer has expired since.
C3_Witness ==
  \E c \in DOMAIN calls :
    /\ calls[c].promise.how = "resolved"
    /\ calls[c].promise.result.type = "value"
    /\ calls[c].timer = "fired"

\* C4: a frame with requestId r changes nothing of a call or subscription
\* with another requestId: their promises, received values, states and
\* listeners stay as they were, and the frames it makes the client send bear r.
C4_ReplyReachesOnlyItsRequest ==
  [][\A msg \in RpcMessages :
       (vars' # vars /\ Len(calls') = Len(calls) /\ HandleSocketMessage(msg)) =>
       /\ \A c \in DOMAIN calls : calls[c].id # msg.requestId => calls'[c] = calls[c]
       /\ \A s \in DOMAIN subs :
            subs[s].requestId # msg.requestId => subs'[s] = subs[s]
       /\ OtherListeners(listeners', msg.requestId) = OtherListeners(listeners, msg.requestId)
       /\ \A i \in DOMAIN sent' : i > Len(sent) => sent'[i].requestId = msg.requestId
    ]_vars

\* An error reply rejected one promise call while another call is still
\* pending, or failed a subscription while one of another call is still live.
C4_Witness ==
  \/ \E c, d \in DOMAIN calls :
       /\ calls[c].promise.how = "rejected"
       /\ calls[c].promise.error.kind = "Error"
       /\ calls[d].promise.how = "pending"
       /\ HasListener(listeners, calls[d].id)
  \/ \E s, u \in DOMAIN subs :
       /\ subs[s].state = "errored"
       /\ subs[u].state = "live"
       /\ subs[u].requestId # subs[s].requestId
       /\ HasListener(listeners, subs[u].requestId)

\* C5: when the timer of a pending promise call fires, the promise is
\* rejected with the timeout error and the listener of its requestId is
\* removed; from then on no frame changes the promise and no listener is
\* registered for it.
C5_TimeoutRejectsAndRemoves ==
  [][\A c \in DOMAIN calls :
       /\ (TimerFire(c) /\ IsPending(c)) =>
            /\ calls'[c].promise = Rejected(TimeoutError)
            /\ ~HasListener(listeners', calls[c].id)
       /\ calls[c].promise = Rejected(TimeoutError) =>
            /\ calls'[c].promise = Rejected(TimeoutError)
            /\ ~HasListener(listeners', calls[c].id)
    ]_vars

\* A promise call timed out before any reply for it arrived.
C5_Witness ==
  \E c \in DOMAIN calls :
    /\ calls[c].promise = Rejected(TimeoutError)
    /\ calls[c].timer = "fired"

\* C6: the timer of call c changes nothing of another call or of any
\* subscription: their promises, timers, states, received values and
\* listeners stay as they were, and no frame is sent.
C6_TimeoutIsolation ==
  [][\A c \in DOMAIN calls : TimerFire(c) =>
       /\ \A d \in DOMAIN calls : d # c => calls'[d] = calls[d]
       /\ subs' = subs
       /\ OtherListeners(listeners', calls[c].id) = OtherListeners(listeners, calls[c].id)
       /\ sent' = sent
    ]_vars

\* A promise call has timed out while a subscription is live and still has
\* its listener.
C6_Witness ==
  \E c \in DOMAIN calls, s \in DOMAIN subs :
    /\ calls[c].promise = Rejected(TimeoutError)
    /\ subs[s].state = "live"
    /\ Len(subs[s].received) > 0
    /\ HasListener(listeners, subs[s].requestId)

\* C7: every promise call is eventually settled (with fair timers), and a
\* pending promise is settled only by a step that is its timer firing or a
\* frame with its requestId arriving; close() settles nothing.
C7_PromiseEventuallySettles ==
  /\ \A c \in 1..MaxCalls :
       (c \in DOMAIN calls /\ IsPromise(c))
         ~> (c \in DOMAIN calls /\ calls[c].promise.how \in {"resolved", "rejected"})
  /\ [][\A c \in DOMAIN calls :
          (IsPending(c) /\ calls'[c].promise.how # "pending") =>
            \/ TimerFire(c)
            \/ \E msg \in Messages :
                 HandleSocketMessage(msg) /\ msg.requestId = calls[c].id
       ]_vars

\* The socket was closed and a promise call, never answered, timed out.
C7_Witness ==
  /\ closed
  /\ \E c \in DOMAIN calls : calls[c].promise = Rejected(TimeoutError)

\* C8: a subscription receives values one at a time while it is live; it
\* completes only on a 'completed' frame and fails only on a hadError frame of
\* its requestId; with that frame the listeners of its requestId are removed,
\* and after it nothing more is delivered to the subscriber.
C8_ObservableGrammar ==
  [][\A s \in DOMAIN subs :
       /\ subs[s].state \in {"completed", "errored"} => subs'[s] = subs[s]
       /\ subs[s].state = "live" =>
            \/ subs'[s] = subs[s]
            \/ \E d \in Data :
                 subs'[s] = [subs[s] EXCEPT !.received = Append(@, d)]
            \/ subs'[s] = [subs[s] EXCEPT !.state = "unsubscribed"]
            \/ /\ \E msg \in Messages :
                    /\ HandleSocketMessage(msg)
                    /\ msg.requestId = subs[s].requestId
                    /\ \/ /\ ~msg.hadError
                          /\ msg.result.type = "completed"
                          /\ subs'[s] = [subs[s] EXCEPT !.state = "completed"]
                       \/ /\ msg.hadError
                          /\ subs'[s] = [subs[s] EXCEPT !.state = "errored",
                                           !.error = DecodeError(msg.error)]
               /\ ~HasListener(listeners', subs[s].requestId)
    ]_vars

\* A subscriber received a value and then the completion.
C8_Witness ==
  \E s \in DOMAIN subs :
    /\ subs[s].state = "completed"
    /\ Len(subs[s].received) > 0

\* C9: the values delivered to a subscriber are exactly the data of the
\* 'next' frames of its requestId that arrived while it was subscribed, in
\* arrival order.
C9_DeliveredExactlyArrived ==
  \A s \in DOMAIN subs : subs[s].received = arrived[s]

\* C10: unsubscribing a live subscription sends one DisposeObservable frame
\* with the requestId of the observable call and removes the listeners of
\* that requestId; nothing is delivered to an unsubscribed subscriber.
C10_UnsubscribeDisposes ==
  [][\A s \in DOMAIN subs :
       /\ Unsubscribe(s) =>
            /\ sent' = Append(sent, [type |-> "DisposeObservable",
                                     requestId |-> calls[subs[s].call].id])
            /\ \E i \in DOMAIN sent :
                 sent[i] = [type |-> calls[subs[s].call].type,
                            requestId |-> calls[subs[s].call].id]
            /\ ~HasListener(listeners', calls[subs[s].call].id)
            /\ subs'[s].state = "unsubscribed"
       /\ subs[s].state = "unsubscribed" => subs'[s] = subs[s]
    ]_vars

\* A subscriber received a value and then unsubscribed.
C10_Witness ==
  \E s \in DOMAIN subs :
    /\ subs[s].state = "unsubscribed"
    /\ Len(subs[s].received) > 0
    /\ sent[Len(sent)].type = "DisposeObservable"

\* The frames a queue holds, in queue order.
QueueData(queue) == [i \in DOMAIN queue |-> queue[i].data]

\* C11: a session outlives its sockets. No step removes a client from the
\* table; the close of a socket changes nothing of any session but, at most,
\* makes its socket absent; and the first frame of a socket naming a client
\* of the table attaches that socket to the same record, whose subscriptions
\* and queued frames (in order) are those it had.
C11_ReconnectKeepsSession ==
  [][/\ DOMAIN clients \subseteq DOMAIN clients'
     /\ \A socket \in DOMAIN sockets :
          OnClose(socket) =>
            \A id \in DOMAIN clients :
              /\ clients'[id].subscriptions = clients[id].subscriptions
              /\ clients'[id].messageQueue = clients[id].messageQueue
              /\ clients'[id].id = id
              /\ clients'[id].socket \in {clients[id].socket, NoSocket}
     /\ \A socket \in DOMAIN sockets, id \in DOMAIN clients :
          OnFirstMessage(socket, id) =>
            /\ clients'[id].subscriptions = clients[id].subscriptions
            /\ QueueData(clients'[id].messageQueue)
                 = QueueData(clients[id].messageQueue)
            /\ clients'[id].id = id
            /\ clients'[id].socket = socket
            /\ \A other \in DOMAIN clients \ {id} : clients'[other] = clients[other]
    ]_vars

\* A session with a subscription and a queued frame lost a socket, which
\* closed, and is attached to a later one.
C11_Witness ==
  \E id \in DOMAIN clients, socket \in DOMAIN sockets :
    /\ sockets[socket].client = id
    /\ sockets[socket].state = "closed"
    /\ clients[id].socket \notin {NoSocket, socket}
    /\ clients[id].subscriptions # {}
    /\ clients[id].messageQueue # <<>>

\* The frames of a sequence are in the order they were submitted.
InSubmissionOrder(frames) ==
  \A i, j \in DOMAIN frames : i < j => frames[i] < frames[j]

\* The messages of a queue that are in the hands of no socket.
Held(queue) ==
  SelectSeq(queue, LAMBDA m :
    \A socket \in DOMAIN sockets :
      \A i \in DOMAIN sockets[socket].inflight :
        sockets[socket].inflight[i].w # m.w)

\* C12: a frame submitted for a session without a socket is appended to its
\* queue and sent on nothing; while the session has no socket the messages
\* its queue holds stay, in order; the first frame of a socket naming the
\* client hands the whole queue to that socket, in queue order, which is
\* submission order; and a frame submitted afterwards goes behind them.
C12_HeldThenFlushedInOrder ==
  [][\A id \in DOMAIN clients :
       /\ ServerComponentSends(id) /\ clients[id].socket = NoSocket =>
            /\ QueueData(clients'[id].messageQueue)
                 = Append(QueueData(clients[id].messageQueue), Len(submitted) + 1)
            /\ sockets' = sockets
       /\ clients[id].socket = NoSocket /\ clients'[id].socket = NoSocket =>
            SelectSeq(clients'[id].messageQueue,
                      LAMBDA m : \E i \in DOMAIN Held(clients[id].messageQueue) :
                                   Held(clients[id].messageQueue)[i] = m)
              = Held(clients[id].messageQueue)
       /\ \A socket \in DOMAIN sockets :
            /\ OnFirstMessage(socket, id) =>
                 /\ QueueData(sockets'[socket].inflight)
                      = QueueData(clients[id].messageQueue)
                 /\ InSubmissionOrder(QueueData(sockets'[socket].inflight))
            /\ ServerComponentSends(id) /\ clients[id].socket = socket =>
                 QueueData(sockets'[socket].inflight)
                   = Append(QueueData(sockets[socket].inflight), Len(submitted) + 1)
    ]_vars

\* Two frames were submitted while no socket was attached (the socket the
\* session had closed without a send) and are in the hands of the next one.
C12_Witness ==
  \E id \in DOMAIN clients, old \in DOMAIN sockets :
    /\ sockets[old].client = id
    /\ sockets[old].state = "closed"
    /\ ~sockets[old].broken
    /\ sockets[old].inflight = <<>>
    /\ \A i \in DOMAIN wire : wire[i].socket # old
    /\ clients[id].socket \notin {NoSocket, old}
    /\ QueueData(sockets[clients[id].socket].inflight) = <<1, 2>>

\* The frames of a client that were transmitted, with their sockets, in order.
WireOf(id) == SelectSeq(wire, LAMBDA t : submitted[t.data] = id)

\* The transmissions that are the first of their frame.
RECURSIVE FirstTransmissions(_)
FirstTransmissions(w) ==
  IF w = <<>> THEN <<>>
  ELSE LET before == SubSeq(w, 1, Len(w) - 1)
           last == w[Len(w)]
       IN IF \E i \in DOMAIN before : before[i].data = last.data
            THEN FirstTransmissions(before)
            ELSE Append(FirstTransmissions(before), last)

NoFrameTwice(frames) ==
  \A i, j \in DOMAIN frames : i # j => frames[i] # frames[j]

\* C14 as stated: no frame is transmitted successfully more than once.
C14_AtMostOnce == NoFrameTwice(QueueData(wire))

\* C14, amended: a frame is transmitted successfully at most once on each
\* socket: it is handed to a socket at most once, and the queue, which a new
\* socket is given whole, holds it at most once.
C14_AtMostOncePerSocket ==
  /\ \A i, j \in DOMAIN wire :
       i # j /\ wire[i].data = wire[j].data => wire[i].socket # wire[j].socket
  /\ \A socket \in DOMAIN sockets :
       /\ NoFrameTwice(QueueData(sockets[socket].inflight))
       /\ \A i \in DOMAIN wire, k \in DOMAIN sockets[socket].inflight :
            wire[i].socket = socket => wire[i].data # sockets[socket].inflight[k].data
  /\ \A id \in DOMAIN clients : NoFrameTwice(QueueData(clients[id].messageQueue))

\* A frame was transmitted on a socket and again on the next socket of the
\* session.
C14_Witness ==
  \E i, j \in DOMAIN wire :
    /\ i < j
    /\ wire[i].data = wire[j].data
    /\ wire[i].socket # wire[j].socket
    /\ clients[submitted[wire[i].data]].messageQueue = <<>>

\* The socket attached to a session is the one that last named its client id,
\* and every socket that named the id and was not closed is that socket.
OneAttachedSocket ==
  \A id \in DOMAIN clients :
    /\ clients[id].socket \in {NoSocket, latest[id]}
    /\ \A socket \in DOMAIN sockets :
         sockets[socket].client = id /\ sockets[socket].state = "open"
           => clients[id].socket = socket
    /\ clients[id].socket # NoSocket =>
         /\ sockets[clients[id].socket].client = id
         /\ sockets[clients[id].socket].state = "open"

\* C15: the first frame of a socket naming a client whose session has a
\* socket closes that socket and attaches the new one to the same session;
\* at all times a session has at most one attached socket, the one that
\* last completed the handshake for its id.
C15_LatestHandshakeWins ==
  [][/\ \A socket \in DOMAIN sockets, id \in DOMAIN clients :
          OnFirstMessage(socket, id) /\ clients[id].socket # NoSocket =>
            /\ sockets'[clients[id].socket].state = "closing"
            /\ clients'[id].socket = socket
            /\ clients'[id].subscriptions = clients[id].subscriptions
            /\ DOMAIN clients' = DOMAIN clients
     /\ OneAttachedSocket'
    ]_vars

\* A session's socket was replaced by a later one while it was attached.
C15_Witness ==
  \E id \in DOMAIN clients, previous \in DOMAIN sockets :
    /\ sockets[previous].client = id
    /\ sockets[previous].state = "closing"
    /\ clients[id].socket \notin {NoSocket, previous}
    /\ latest[id] = clients[id].socket

\* The frames a socket can deliver that _onSocketMessage accepts.
WellFormed == {frame \in InboundFrames :
                 frame.json /\ frame.protocol = SERVICE_FRAMEWORK3_CHANNEL}

\* C16: the first frame of a socket is taken as the client id and is not
\* dispatched; nothing of a socket is dispatched before its first frame; and
\* a later well-formed frame is dispatched with the session its first frame
\* named.
C16_FirstFrameIsTheClientId ==
  [][/\ \A d \in dispatched' :
          /\ d.frame > 1
          /\ d.client \in DOMAIN clients'
          /\ d.client = sockets'[d.socket].client
     /\ \A socket \in DOMAIN sockets :
          /\ \A id \in ClientIds :
               OnFirstMessage(socket, id) =>
                 /\ dispatched' = dispatched
                 /\ sockets'[socket].client = id
          /\ sockets[socket].nrecv >= 1 =>
               sockets'[socket].client = sockets[socket].client
          /\ \A frame \in WellFormed :
               OnSocketMessage(socket, frame) =>
                 /\ sockets[socket].nrecv >= 1
                 /\ dispatched' =
                      dispatched \cup {HandleMessage(socket)}
    ]_vars

\* Frames of two sockets were dispatched, each with the session its socket
\* named, and the sessions differ.
C16_Witness ==
  \E d1, d2 \in dispatched :
    /\ d1.client # d2.client
    /\ d1.socket # d2.socket

\* C17: a frame on an attached socket that is not JSON, or whose protocol is
\* not the transport's, is dropped: nothing is dispatched, no session
\* changes, and the server process keeps running.
C17_BadFrameIsDropped ==
  [][\A socket \in DOMAIN sockets, frame \in InboundFrames \ WellFormed :
       OnSocketMessage(socket, frame) =>
         /\ dispatched' = dispatched
         /\ clients' = clients
         /\ running'
    ]_vars

\* C18: a frame of another channel is ignored: it reaches no call and no
\* subscription, and no error leaves the message handler.
C18_ForeignFrameIgnored ==
  [][\A msg \in OtherMessages :
       HandleSocketMessage(msg) =>
         /\ listeners' = listeners
         /\ calls' = calls
         /\ subs' = subs
         /\ sent' = sent
         /\ ~escaped'
    ]_vars

\* What the spec has close() reject and fail with.
ClosedError ==
  [kind |-> "string", message |-> "Closed", code |-> NoData, stack |-> NoData]

\* C19: close() rejects every pending promise call with Closed and fails
\* every live subscription with Closed.
C19_CloseSettlesEverything ==
  [][Close =>
       /\ \A c \in DOMAIN calls :
            IsPromise(c) /\ IsPending(c) =>
              calls'[c].promise = Rejected(ClosedError)
       /\ \A s \in DOMAIN subs :
            subs[s].state = "live" =>
              /\ subs'[s].state = "errored"
              /\ subs'[s].error = ClosedError
    ]_vars

\* The frames of the RPC channel that bear the requestId of a void call reach
\* no listener: emitting them changes nothing.
VoidIsAwaitedByNobody ==
  \A c \in DOMAIN calls :
    calls[c].returnType = "void" =>
      /\ ~HasListener(listeners, calls[c].id)
      /\ calls[c].timer = "none"
      /\ calls[c].promise = NoPromise
      /\ \A msg \in RpcMessages :
           msg.requestId = calls[c].id =>
             Emit(St, ListenersOf(listeners, msg.requestId), msg) = St

\* C20: a 'void' call sends exactly one frame, with its new requestId, and
\* registers no listener and no timer: the listeners are those there were;
\* and at no later time does a frame with that requestId reach anybody.
C20_VoidSendsAndForgets ==
  [][/\ CallRemoteFunction("void") \/ CallRemoteMethod(TheObject, "void") =>
          /\ Len(sent') = Len(sent) + 1
          /\ sent'[Len(sent')].requestId = rpcRequestId
          /\ sent'[Len(sent')].type \in {"FunctionCall", "MethodCall"}
          /\ listeners' = listeners
          /\ calls'[Len(calls')].timer = "none"
     /\ VoidIsAwaitedByNobody'
    ]_vars

\* A void call was made, a later promise call is awaited, and replies were
\* handled since.
C20_Witness ==
  \E c, d \in DOMAIN calls :
    /\ calls[c].returnType = "void"
    /\ c < d
    /\ calls[d].promise.how = "resolved"
    /\ \E i \in DOMAIN sent : sent[i].requestId = calls[c].id

\* C21: a subscription for whose requestId no frame arrives does not stay
\* live for ever: its timer fails it with a timeout (or it is ended otherwise).
C21_SilentStreamTimesOut ==
  \A s \in 1..MaxSubs :
    (s \in DOMAIN subs /\ subs[s].state = "live" /\ arrived[s] = <<>>)
      ~> (s \in DOMAIN subs /\ (subs[s].state # "live" \/ arrived[s] # <<>>))

\* C22: the session of a client that is gone (its socket closed, no socket
\* names its id again) does not stay in the table for ever: it is cleared,
\* with its subscriptions.
C22_LostClientIsCleared ==
  \A id \in ClientIds :
    (id \in DOMAIN clients /\ clients[id].socket = NoSocket)
      ~> (id \notin DOMAIN clients \/ clients[id].socket # NoSocket)

\* ------------------------------------------------- remote objects (part_003)

nonRegistryVars ==
  <<clientVars, serverVars, objectOf, singletonVars, busyVars, formVars,
    managerVars, dialogVars, hackVars>>

\* The unmarshaller without this._objectRegistry.set(objectId, object).
UnmarshalForgets(objectId) ==
  LET cached == objectId \in DOMAIN objectRegistry
      object == IF cached THEN objectRegistry[objectId] ELSE Len(proxies) + 1
  IN
  /\ Len(unmarshalled) < MaxUnmarshals
  /\ proxies' = IF cached THEN proxies
                ELSE Append(proxies, [idPromise |-> objectId])
  /\ objectRegistry' = objectRegistry
  /\ unmarshalled' = Append(unmarshalled, [objectId |-> objectId, object |-> object])
  /\ UNCHANGED nonRegistryVars

\* The unmarshaller registered for an interface type (lines 67-80): the cached
\* proxy, or a new object whose _idPromise is resolved with objectId, which is
\* then put in the registry. A proxy is named by its position in proxies.
Unmarshal(objectId) ==
  LET cached == objectId \in DOMAIN objectRegistry
      object == IF cached THEN objectRegistry[objectId] ELSE Len(proxies) + 1
  IN
  /\ Len(unmarshalled) < MaxUnmarshals
  /\ proxies' = IF cached THEN proxies
                ELSE Append(proxies, [idPromise |-> objectId])
  /\ objectRegistry' = IF cached THEN objectRegistry
                       ELSE (objectId :> object) @@ objectRegistry
  /\ unmarshalled' = Append(unmarshalled, [objectId |-> objectId, object |-> object])
  /\ UNCHANGED nonRegistryVars

\* The marshaller registered for an interface type (lines 64-66):
\* await object._idPromise.
Marshal(object) == proxies[object].idPromise

\* The client used through the proxies of its remote objects: the server's
\* replies are unmarshalled, methods are called on the objects and the objects
\* are disposed.
ObjectNext ==
  \/ \E objectId \in ObjectIds : Unmarshal(objectId)
  \/ \E objectId \in ObjectIds, rt \in ReturnTypes : CallRemoteMethod(objectId, rt)
  \/ \E objectId \in ObjectIds : DisposeRemoteObject(objectId)
  \/ \E c \in DOMAIN calls : TimerFire(c)
  \/ \E msg \in RpcMessages : HandleSocketMessage(msg)

ObjectSpec == Init /\ [][ObjectNext]_vars

\* ------------------------------------------------ error replies (part_003)

\* The error field of an error reply: an object with a code, an object without
\* one, or a primitive (a string).
EncodedErrors ==
  Errors \cup
  { [kind |-> "object", message |-> "bad", code |-> NoData, stack |-> "st2"],
    [kind |-> "string", message |-> "oops", code |-> NoData, stack |-> NoData] }

\* The frames of the RPC channel, with every kind of error.
ErrorMessages ==
  RpcMessages \cup
  [channel : {SERVICE_FRAMEWORK3_CHANNEL}, requestId : 1..MaxCalls,
   hadError : {TRUE}, error : EncodedErrors, result : {NoResult}]

\* Calls that await a reply, and the replies and timeouts that settle them.
ErrorNext ==
  \/ \E rt \in {"promise", "observable"} : CallRemoteFunction(rt)
  \/ \E c \in DOMAIN calls : Subscribe(c)
  \/ \E c \in DOMAIN calls : TimerFire(c)
  \/ \E msg \in ErrorMessages : HandleSocketMessage(msg)

ErrorSpec == Init /\ [][ErrorNext]_vars

\* ------------------------------------- the one NuclideServer of a process

nonSingletonVars ==
  <<clientVars, serverVars, objectOf, registryVars, busyVars, formVars,
    managerVars, dialogVars, hackVars>>

\* The constructor without its invariant.
ConstructUnchecked ==
  /\ Len(servers) < MaxServers
  /\ theServer' = Len(servers) + 1
  /\ servers' = Append(servers, [state |-> "registered", closeThrew |-> FALSE])
  /\ UNCHANGED nonSingletonVars

\* new NuclideServer(options) (lines 146-148): the invariant throws when a
\* server is registered, before anything is assigned; otherwise the new
\* instance is registered.
Construct ==
  /\ Len(servers) < MaxServers
  /\ IF theServer = NoServer
       THEN /\ theServer' = Len(servers) + 1
            /\ servers' = Append(servers, [state |-> "registered", closeThrew |-> FALSE])
       ELSE /\ theServer' = theServer
            /\ servers' = Append(servers, [state |-> "failed", closeThrew |-> FALSE])
  /\ UNCHANGED nonSingletonVars

\* close() of an instance whose construction succeeded (lines 375-381): the
\* invariant throws unless the instance is the registered one.
CloseServer(i) ==
  /\ servers[i].state # "failed"
  /\ IF theServer = i
       THEN /\ theServer' = NoServer
            /\ servers' = [servers EXCEPT ![i].state = "closed"]
       ELSE /\ theServer' = theServer
            /\ servers' = [servers EXCEPT ![i].closeThrew = TRUE]
  /\ UNCHANGED nonSingletonVars

SingletonNext ==
  \/ Construct
  \/ \E i \in DOMAIN servers : CloseServer(i)

SingletonSpec == Init /\ [][SingletonNext]_vars

\* ------------------------------------------------- BusySignalProviderBase

nonBusyVars ==
  <<clientVars, serverVars, objectOf, registryVars, singletonVars, formVars,
    managerVars, dialogVars, hackVars>>

\* The part of the provider's state its methods work on.
Busy == [nextId |-> nextId, messages |-> messages, works |-> works]

\* _nextMessagePair without this._nextId++.
NextMessagePairSameId(n) == [busy |-> n, done |-> n, next |-> n]

\* _nextMessagePair (lines 262-274): the ids of busy and done, and _nextId after.
NextMessagePair(n) == [busy |-> n, done |-> n, next |-> n + 1]

\* _displayMessage (lines 254-260) for call w: busy is published; the
\* Disposable returned publishes done.
DisplayMessage(b, w) ==
  LET pair == NextMessagePair(b.nextId) IN
  [b EXCEPT !.nextId = pair.next,
            !.messages = Append(@, [status |-> "busy", id |-> pair.busy, work |-> w]),
            !.works[w].displayed = pair.done]

\* Disposing what is displayed for call w (disposeDisplayed, lines 230-235; for
\* a call without onlyForFile, the Disposable of _displayMessage).
DisposeDisplayed(b, w) ==
  IF b.works[w].displayed = NoId THEN b
  ELSE [b EXCEPT !.messages = Append(@, [status |-> "done",
                                         id |-> b.works[w].displayed, work |-> w]),
                 !.works[w].displayed = NoId]

\* The callback without the test displayedDisposable == null.
ObserveActivePaneItemDisplaysAgain(b, w, item) ==
  IF item # NoItem /\ item = b.works[w].onlyForFile
    THEN DisplayMessage(b, w)
    ELSE DisposeDisplayed(b, w)

\* The callback given to observeActivePaneItem (lines 237-246).
ObserveActivePaneItem(b, w, item) ==
  IF item # NoItem /\ item = b.works[w].onlyForFile
    THEN IF b.works[w].displayed = NoId THEN DisplayMessage(b, w) ELSE b
    ELSE DisposeDisplayed(b, w)

\* removeMessage, that is messageRemover.dispose(): a Disposable or CompositeDisposable acts on its
\* first dispose only; the pane observer is unsubscribed.
RemoveBusyMessage(b, w) ==
  IF b.works[w].disposed THEN b
  ELSE [DisposeDisplayed(b, w) EXCEPT !.works[w].disposed = TRUE]

\* reportBusy(message, f, options) (lines 276-295): displayMessage (225-252),
\* then f(), which returns a promise, throws, or returns something else (the
\* invariant throws).
ReportBusy(onlyForFile, outcome) ==
  LET w == Len(works) + 1
      b0 == [Busy EXCEPT !.works = Append(@, [onlyForFile |-> onlyForFile,
                                               promise |-> "pending",
                                               displayed |-> NoId,
                                               disposed |-> FALSE])]
      b1 == IF onlyForFile = NoFile THEN DisplayMessage(b0, w)
            ELSE ObserveActivePaneItem(b0, w, activeItem)
      b2 == IF outcome = "promise" THEN b1
            ELSE [RemoveBusyMessage(b1, w) EXCEPT !.works[w].promise = "threw"]
  IN
  /\ Len(works) < MaxWorks
  /\ nextId' = b2.nextId
  /\ messages' = b2.messages
  /\ works' = b2.works
  /\ UNCHANGED <<activeItem, paneChanges, nonBusyVars>>

\* The promise f returned is resolved or rejected: removeMessage runs.
SettleWork(w, how) ==
  LET b == [RemoveBusyMessage(Busy, w) EXCEPT !.works[w].promise = how] IN
  /\ works[w].promise = "pending"
  /\ nextId' = b.nextId
  /\ messages' = b.messages
  /\ works' = b.works
  /\ UNCHANGED <<activeItem, paneChanges, nonBusyVars>>

\* The workspace calls the observers of the active pane item, in the order
\* they subscribed.
RECURSIVE NotifyObservers(_, _, _)
NotifyObservers(b, w, item) ==
  IF w > Len(b.works) THEN b
  ELSE NotifyObservers(
         IF b.works[w].onlyForFile # NoFile /\ ~b.works[w].disposed
           THEN ObserveActivePaneItem(b, w, item) ELSE b,
         w + 1, item)

\* The active pane item changes; the new item may show the path the previous
\* one showed (the same file in another pane).
ActivePaneItemChanges(item) ==
  LET b == NotifyObservers(Busy, 1, item) IN
  /\ paneChanges < MaxPaneChanges
  /\ paneChanges' = paneChanges + 1
  /\ activeItem' = item
  /\ nextId' = b.nextId
  /\ messages' = b.messages
  /\ works' = b.works
  /\ UNCHANGED nonBusyVars

BusyNext ==
  \/ \E onlyForFile \in Files \cup {NoFile}, outcome \in {"promise", "throws", "notPromise"} :
       ReportBusy(onlyForFile, outcome)
  \/ \E w \in DOMAIN works, how \in {"resolved", "rejected"} : SettleWork(w, how)
  \/ \E item \in Files \cup {NoItem} : ActivePaneItemChanges(item)

BusySpec == Init /\ [][BusyNext]_vars

\* ------------------------------------------------ validateFormInputs (part_002)

nonFormVars ==
  <<clientVars, serverVars, objectOf, registryVars, singletonVars, busyVars,
    managerVars, dialogVars, hackVars>>

\* The label of a missing private key path.
PrivateKeyLabel ==
  "Private Key File (required for the authentication method you selected)"

\* if (!value) missingFields.push(label); else profileParams[key] = value.
Required(st, value, label, key) ==
  IF value = Empty
    THEN [st EXCEPT !.missingFields = Append(@, label)]
    ELSE [st EXCEPT !.profileParams = (key :> value) @@ @]

\* The check of the private key path (lines 77-82); otherwise the path is
\* copied, given or not.
PrivateKeyRequired(st, connectionDetails) ==
  IF connectionDetails.authMethod = "PRIVATE_KEY"
       /\ connectionDetails.pathToPrivateKey = Empty
    THEN [st EXCEPT !.missingFields = Append(@, PrivateKeyLabel)]
    ELSE [st EXCEPT !.profileParams =
                      ("pathToPrivateKey" :> connectionDetails.pathToPrivateKey) @@ @]

\* The first part of validateFormInputs (lines 44-82): the missing fields
\* and the parameters copied.
RequiredFields(profileName, connectionDetails) ==
  LET s0 == [missingFields |-> <<>>, profileParams |-> <<>>]
      s1 == IF profileName = Empty
              THEN [s0 EXCEPT !.missingFields = Append(@, "Profile Name")] ELSE s0
      s2 == Required(s1, connectionDetails.username, "Username", "username")
      s3 == Required(s2, connectionDetails.server, "Server", "server")
      s4 == Required(s3, connectionDetails.cwd, "Initial Directory", "cwd")
      s5 == Required(s4, connectionDetails.sshPort, "SSH Port", "sshPort")
      s6 == Required(s5, connectionDetails.authMethod, "Authentication Method",
                     "authMethod")
  IN PrivateKeyRequired(s6, connectionDetails)

\* validateFormInputs that saves the remote server command whenever one is given.
ValidateFormInputsKeepsDefault(profileName, connectionDetails, defaultRemoteServerCommand) ==
  LET st == RequiredFields(profileName, connectionDetails)
      remoteServerCommand == connectionDetails.remoteServerCommand
  IN
  IF st.missingFields # <<>>
    THEN [kind |-> "error", errorMessage |-> st.missingFields]
    ELSE [kind |-> "profile",
          displayTitle |-> profileName,
          params |-> ("remoteServerCommand" :> remoteServerCommand) @@ st.profileParams,
          warningMessage |-> connectionDetails.authMethod = "PASSWORD"
                                /\ connectionDetails.password # Empty]

\* validateFormInputs(profileName, connectionDetails, defaultRemoteServerCommand)
\* (lines 38-119). The error message is modelled by the list of labels it
\* joins, the warning by whether there is one.
ValidateFormInputs(profileName, connectionDetails, defaultRemoteServerCommand) ==
  LET st == RequiredFields(profileName, connectionDetails)
      remoteServerCommand ==
        IF connectionDetails.remoteServerCommand # Empty
             /\ connectionDetails.remoteServerCommand # defaultRemoteServerCommand
          THEN connectionDetails.remoteServerCommand
          ELSE Empty
  IN
  IF st.missingFields # <<>>
    THEN [kind |-> "error", errorMessage |-> st.missingFields]
    ELSE [kind |-> "profile",
          displayTitle |-> profileName,
          params |-> ("remoteServerCommand" :> remoteServerCommand) @@ st.profileParams,
          warningMessage |-> connectionDetails.authMethod = "PASSWORD"
                                /\ connectionDetails.password # Empty]

\* The form is validated.
Validate ==
  /\ validation = NotValidated
  /\ validation' = ValidateFormInputs(form.profileName, form, DefaultRemoteServerCommand)
  /\ UNCHANGED <<form, nonFormVars>>

FormInit ==
  /\ BaseInit
  /\ form \in Forms
  /\ validation = NotValidated

FormNext == Validate

FormSpec == FormInit /\ [][FormNext]_vars

\* ------------------------------------------------ ReactNativeServerManager

nonManagerVars ==
  <<clientVars, serverVars, objectOf, registryVars, singletonVars, busyVars,
    formVars, dialogVars, hackVars>>

\* The part of the manager's state _stopServer and _startServer work on.
Manager == [processRunner |-> processRunner, runners |-> runners,
            starting |-> starting]

\* _stopServer (lines 74-78): the current runner, if any, is disposed.
StopServer(m) ==
  [m EXCEPT !.runners = IF m.processRunner = NoRunner THEN @
                        ELSE [@ EXCEPT ![m.processRunner].disposed = TRUE],
            !.processRunner = NoRunner]

\* _startServer up to its await (lines 80-83): with a current runner it runs
\* it; without one _createProcessRunner makes a runner (141-171) and the call
\* is suspended.
StartServer(m) ==
  IF m.processRunner # NoRunner
    THEN [m EXCEPT !.runners[m.processRunner].ran = TRUE]
    ELSE [m EXCEPT !.runners = Append(@, [disposed |-> FALSE, ran |-> FALSE]),
                   !.starting = Append(@, Len(m.runners) + 1)]

\* The dispatcher callback (lines 53-72).
HandleAction(actionType) ==
  LET m == IF actionType = "START_SERVER" THEN StartServer(Manager)
           ELSE IF actionType = "STOP_SERVER" THEN StopServer(Manager)
           ELSE IF actionType = "RESTART_SERVER" THEN StartServer(StopServer(Manager))
           ELSE Manager
  IN
  /\ actionType \in {"START_SERVER", "RESTART_SERVER"}
       /\ Manager.processRunner = NoRunner
       => Len(runners) < MaxRunners
  /\ actionType = "RESTART_SERVER" => Len(runners) < MaxRunners
  /\ processRunner' = m.processRunner
  /\ runners' = m.runners
  /\ starting' = m.starting
  /\ nodeExecutorServer' =
       (nodeExecutorServer \/ actionType = "START_NODE_EXECUTOR_SERVER")
  /\ UNCHANGED nonManagerVars

\* A suspended _startServer resumes (lines 84-91): the runner it made becomes
\* the current one and is run.
ResumeStartServer ==
  /\ starting # <<>>
  /\ processRunner' = Head(starting)
  /\ runners' = [runners EXCEPT ![Head(starting)].ran = TRUE]
  /\ starting' = Tail(starting)
  /\ UNCHANGED <<nodeExecutorServer, nonManagerVars>>

ManagerNext ==
  \/ \E actionType \in {"START_NODE_EXECUTOR_SERVER", "START_SERVER",
                         "STOP_SERVER", "RESTART_SERVER"} :
       HandleAction(actionType)
  \/ ResumeStartServer

ManagerSpec == Init /\ [][ManagerNext]_vars

\* -------------------------------------------------------- ConnectionDialog

nonDialogVars ==
  <<clientVars, serverVars, objectOf, registryVars, singletonVars, busyVars,
    formVars, managerVars, hackVars>>

\* An event reaches the dialog while it is open.
DialogEvent ==
  /\ dialogOpen
  /\ dialogEvents < MaxDialogEvents
  /\ dialogEvents' = dialogEvents + 1

\* The calls the dialog makes.
Connect == [call |-> "sshHandshake.connect", finish |-> NoFinish]
CancelHandshake == [call |-> "sshHandshake.cancel", finish |-> NoFinish]
Finish(request) == [call |-> "finish", finish |-> request]
OnCancel == [call |-> "onCancel", finish |-> NoFinish]
CloseDialog == [call |-> "close", finish |-> NoFinish]
OnConnect == [call |-> "onConnect", finish |-> NoFinish]
OnError == [call |-> "onError", finish |-> NoFinish]

\* ok() connecting without testing remoteServerCommand.
OkIgnoresCommand(fields) ==
  /\ DialogEvent
  /\ IF mode = REQUEST_CONNECTION_DETAILS
       THEN IF fields.username # Empty /\ fields.server # Empty
                 /\ fields.cwd # Empty
              THEN /\ mode' = WAITING_FOR_CONNECTION
                   /\ effects' = Append(effects, Connect)
                   /\ connecting' = TRUE
              ELSE UNCHANGED <<mode, effects, connecting>>
       ELSE IF mode = REQUEST_AUTHENTICATION_DETAILS
         THEN /\ effects' = Append(effects, Finish(finish))
              /\ mode' = WAITING_FOR_AUTHENTICATION
              /\ UNCHANGED connecting
         ELSE UNCHANGED <<mode, effects, connecting>>
  /\ UNCHANGED <<finish, dialogOpen, nonDialogVars>>

\* ok() (lines 183-222), with the fields the connection details form holds.
Ok(fields) ==
  /\ DialogEvent
  /\ IF mode = REQUEST_CONNECTION_DETAILS
       THEN IF fields.username # Empty /\ fields.server # Empty
                 /\ fields.cwd # Empty /\ fields.remoteServerCommand # Empty
              THEN /\ mode' = WAITING_FOR_CONNECTION
                   /\ effects' = Append(effects, Connect)
                   /\ connecting' = TRUE
              ELSE UNCHANGED <<mode, effects, connecting>>
       ELSE IF mode = REQUEST_AUTHENTICATION_DETAILS
         THEN /\ effects' = Append(effects, Finish(finish))
              /\ mode' = WAITING_FOR_AUTHENTICATION
              /\ UNCHANGED connecting
         ELSE UNCHANGED <<mode, effects, connecting>>
  /\ UNCHANGED <<finish, dialogOpen, nonDialogVars>>

\* cancel() that closes the dialog in every mode.
CancelAlwaysCloses ==
  /\ DialogEvent
  /\ connecting' = FALSE
  /\ effects' = effects \o <<CancelHandshake, OnCancel, CloseDialog>>
  /\ dialogOpen' = FALSE
  /\ UNCHANGED <<mode, finish, nonDialogVars>>

\* cancel() (lines 161-175) and close() (177-181).
Cancel ==
  /\ DialogEvent
  /\ connecting' = FALSE
  /\ IF mode = WAITING_FOR_CONNECTION
       THEN /\ effects' = Append(effects, CancelHandshake)
            /\ mode' = REQUEST_CONNECTION_DETAILS
            /\ UNCHANGED dialogOpen
       ELSE /\ effects' = effects \o <<CancelHandshake, OnCancel, CloseDialog>>
            /\ dialogOpen' = FALSE
            /\ UNCHANGED mode
  /\ UNCHANGED <<finish, nonDialogVars>>

\* onKeyboardInteractive of the handshake delegate (lines 76-79):
\* requestAuthentication(prompts[0], finish) (224-233). Each request has its
\* own finish, named by the rank of the request.
RequestAuthentication ==
  /\ DialogEvent
  /\ connecting
  /\ mode' = REQUEST_AUTHENTICATION_DETAILS
  /\ finish' = dialogEvents + 1
  /\ UNCHANGED <<connecting, dialogOpen, effects, nonDialogVars>>

\* onDidConnect and onError of the handshake delegate (lines 83-97): the
\* dialog is closed, then the prop is called.
HandshakeEnds(outcome) ==
  /\ DialogEvent
  /\ connecting
  /\ connecting' = FALSE
  /\ dialogOpen' = FALSE
  /\ effects' = effects \o <<CloseDialog, outcome>>
  /\ UNCHANGED <<mode, finish, nonDialogVars>>

DialogNext ==
  \/ \E fields \in DialogFields : Ok(fields)
  \/ Cancel
  \/ RequestAuthentication
  \/ \E outcome \in {OnConnect, OnError} : HandshakeEnds(outcome)

DialogSpec == Init /\ [][DialogNext]_vars

\* -------------------------------------------------- HackDiagnosticsProvider

nonHackVars ==
  <<clientVars, serverVars, objectOf, registryVars, singletonVars, busyVars,
    formVars, managerVars, dialogVars>>

\* The provider's state its methods work on.
Hack == [paths |-> hackLanguageToFilePaths, published |-> published]

\* publishMessageInvalidation({scope: 'file', filePaths}): language and
\* available tell, for an invalidation made for a HackLanguage, which it was
\* and what its isHackAvailable() returned.
MessageInvalidation(filePaths, language, available) ==
  [kind |-> "invalidation", filePaths |-> filePaths, language |-> language,
   available |-> available, recorded |-> {}]

\* publishMessageUpdate(_processDiagnostics(diagnostics)) (lines 154, 157-173):
\* the keys of filePathToMessages are the paths of the causes; recorded is
\* what the run put in _hackLanguageToFilePaths.
MessageUpdate(diagnostics, language, recorded) ==
  [kind |-> "update",
   filePaths |-> {diagnostics[i][1] : i \in DOMAIN diagnostics},
   language |-> language, available |-> TRUE, recorded |-> recorded]

\* _getPathsToInvalidate giving no path in every case.
GetPathsToInvalidateNothing(paths, hackLanguage, available) == {}

\* _getPathsToInvalidate (lines 175-184).
GetPathsToInvalidate(paths, hackLanguage, available) ==
  IF ~available THEN {}
  ELSE IF ~paths[hackLanguage].present THEN {}
  ELSE paths[hackLanguage].paths

\* _invalidatePathsForHackLanguage (lines 220-226).
InvalidatePathsForHackLanguage(hk, hackLanguage, available) ==
  [hk EXCEPT
     !.published = Append(@, MessageInvalidation(
                      GetPathsToInvalidate(hk.paths, hackLanguage, available),
                      hackLanguage, available)),
     !.paths[hackLanguage] = NoPaths]

\* The paths of all messages of the diagnostics (lines 144-152).
PathsOf(diagnostics) ==
  UNION {{diagnostics[i][k] : k \in DOMAIN diagnostics[i]} :
           i \in DOMAIN diagnostics}

\* _runDiagnostics(textEditor) (lines 113-118) up to the first await of
\* _runDiagnosticsImpl (121-130): an editor without a path ends the run.
RunDiagnostics(filePath) ==
  /\ Len(hackRuns) < MaxHackRuns
  /\ hackRuns' = Append(hackRuns,
       [filePath |-> filePath,
        pc |-> IF filePath = NoFile THEN "returned" ELSE "findDiagnostics",
        result |-> NoDiagnostics])
  /\ UNCHANGED <<hackLanguageToFilePaths, published, invalidates, nonHackVars>>

\* this._requestSerializer.run(findDiagnostics(textEditor)) settles (lines
\* 130-133).
FindDiagnosticsSettles(r, status, result) ==
  /\ hackRuns[r].pc = "findDiagnostics"
  /\ hackRuns' = [hackRuns EXCEPT
       ![r].pc = IF result = NoDiagnostics \/ status = "outdated"
                   THEN "returned" ELSE "getHackLanguageForUri",
       ![r].result = result]
  /\ UNCHANGED <<hackLanguageToFilePaths, published, invalidates, nonHackVars>>

\* getHackLanguageForUri settles and the run goes on to its end (lines
\* 136-154) without another await.
GetHackLanguageSettles(r, hackLanguage, available) ==
  LET h0 == [Hack EXCEPT !.published =
               Append(@, MessageInvalidation({hackRuns[r].filePath},
                                             NoLanguage, TRUE))]
      h1 == InvalidatePathsForHackLanguage(h0, hackLanguage, available)
      recorded == PathsOf(hackRuns[r].result)
      h2 == [h1 EXCEPT
               !.paths[hackLanguage] = [present |-> TRUE, paths |-> recorded],
               !.published = Append(@, MessageUpdate(hackRuns[r].result,
                                                     hackLanguage, recorded))]
  IN
  /\ hackRuns[r].pc = "getHackLanguageForUri"
  /\ hackRuns' = [hackRuns EXCEPT ![r].pc = "returned"]
  /\ IF hackLanguage = NoLanguage
       THEN UNCHANGED <<hackLanguageToFilePaths, published>>
       ELSE /\ hackLanguageToFilePaths' = h2.paths
            /\ published' = h2.published
  /\ UNCHANGED <<invalidates, nonHackVars>>

\* invalidateProjectPath(projectPath) (lines 212-218).
InvalidateProjectPath(hackLanguage, available) ==
  LET h == InvalidatePathsForHackLanguage(Hack, hackLanguage, available) IN
  /\ invalidates < MaxInvalidates
  /\ invalidates' = invalidates + 1
  /\ IF hackLanguage = NoLanguage
       THEN UNCHANGED <<hackLanguageToFilePaths, published>>
       ELSE /\ hackLanguageToFilePaths' = h.paths
            /\ published' = h.published
  /\ UNCHANGED <<hackRuns, nonHackVars>>

HackNext ==
  \/ \E filePath \in Files \cup {NoFile} : RunDiagnostics(filePath)
  \/ \E r \in DOMAIN hackRuns, status \in {"success", "outdated"},
        result \in DiagnosticResults \cup {NoDiagnostics} :
       FindDiagnosticsSettles(r, status, result)
  \/ \E r \in DOMAIN hackRuns, hackLanguage \in HackLanguages \cup {NoLanguage},
        available \in BOOLEAN :
       GetHackLanguageSettles(r, hackLanguage, available)
  \/ \E hackLanguage \in HackLanguages \cup {NoLanguage}, available \in BOOLEAN :
       InvalidateProjectPath(hackLanguage, available)

HackSpec == Init /\ [][HackNext]_vars

\* ---------------------------------------------------------------- C23 .. C25

\* The error the specification names for a use of a disposed object.
ObjectDisposed ==
  [kind |-> "Error", message |-> "ObjectDisposed", code |-> NoData, stack |-> NoData]

\* disposeRemoteObject(objectId) has been called.
DisposeCalled(objectId) ==
  \E c \in DOMAIN calls : calls[c].type = "DisposeObject" /\ objectOf[c] = objectId

\* C23: after disposeRemoteObject(id) has been called, a method call on that
\* object sends no MethodCall frame and, when it returns a promise, that
\* promise is rejected with ObjectDisposed at once.
C23_DisposedObjectFailsLocally ==
  [][\A objectId \in ObjectIds, rt \in ReturnTypes :
       DisposeCalled(objectId) /\ CallRemoteMethod(objectId, rt)
         => /\ sent' = sent
            /\ rt = "promise" => calls'[Len(calls')].promise = Rejected(ObjectDisposed)]_vars

\* C24: the second disposeRemoteObject(id) for an object is still pending, has
\* resolved, or has failed with ObjectDisposed.
C24_SecondDisposeResolvesOrObjectDisposed ==
  \A c, d \in DOMAIN calls :
    /\ c < d
    /\ calls[c].type = "DisposeObject" /\ calls[d].type = "DisposeObject"
    /\ objectOf[c] = objectOf[d]
    => \/ calls[d].promise.how \in {"pending", "resolved"}
       \/ calls[d].promise = Rejected(ObjectDisposed)

\* C25: the client holds at most one proxy per objectId, every unmarshal of an
\* objectId returned the same proxy, that proxy is the one the registry holds
\* for the objectId, and marshalling it yields the objectId back.
C25_OneProxyPerObjectId ==
  /\ \A p, q \in DOMAIN proxies :
       proxies[p].idPromise = proxies[q].idPromise => p = q
  /\ \A i, j \in DOMAIN unmarshalled :
       unmarshalled[i].objectId = unmarshalled[j].objectId
         => unmarshalled[i].object = unmarshalled[j].object
  /\ \A i \in DOMAIN unmarshalled :
       /\ unmarshalled[i].objectId \in DOMAIN objectRegistry
       /\ objectRegistry[unmarshalled[i].objectId] = unmarshalled[i].object
       /\ Marshal(unmarshalled[i].object) = unmarshalled[i].objectId

\* An objectId was unmarshalled again after another one had been unmarshalled
\* in between.
C25_Witness ==
  \E i, j, k \in DOMAIN unmarshalled :
    /\ i < j /\ j < k
    /\ unmarshalled[i].objectId = unmarshalled[k].objectId
    /\ unmarshalled[i].objectId # unmarshalled[j].objectId
    /\ Len(proxies) = Cardinality(ObjectIds)

\* ------------------------------------------------------------------------ C26

\* The instances that are registered.
Registered == {i \in DOMAIN servers : servers[i].state = "registered"}

\* C26: at most one NuclideServer is registered at any time, and it is
\* _theServer; a construction while one is registered fails and leaves that
\* one registered; close() of the registered instance unregisters it, after
\* which a construction succeeds; close() of any other instance throws and
\* changes nothing else.
C26_OneServerPerProcess ==
  [][/\ Registered' = IF theServer' = NoServer THEN {} ELSE {theServer'}
     /\ Construct /\ theServer # NoServer
          => /\ theServer' = theServer
             /\ servers'[Len(servers')].state = "failed"
     /\ Construct /\ theServer = NoServer
          => /\ theServer' = Len(servers')
             /\ servers'[Len(servers')].state = "registered"
     /\ \A i \in DOMAIN servers :
          CloseServer(i)
            => IF theServer = i
                 THEN /\ theServer' = NoServer
                      /\ servers'[i].state = "closed"
                      /\ ~servers'[i].closeThrew
                 ELSE /\ theServer' = theServer
                      /\ servers'[i].closeThrew
                      /\ servers'[i].state = servers[i].state]_vars

\* A construction failed while a server was registered, that server was then
\* closed, a new one was constructed, and a close of the first one threw.
C26_Witness ==
  \E i, j, k \in DOMAIN servers :
    /\ i < j /\ j < k
    /\ servers[i].state = "closed" /\ servers[i].closeThrew
    /\ servers[j].state = "failed"
    /\ servers[k].state = "registered" /\ theServer = k

\* ------------------------------------------------------------------------ C27

\* surfaced is what the caller gets for the transmitted error.
SurfacedAs(transmitted, surfaced) ==
  IF transmitted.kind = "object"
    THEN /\ surfaced.kind = "Error"
         /\ surfaced.message = transmitted.message
         /\ surfaced.code = transmitted.code
         /\ surfaced.stack = transmitted.stack
    ELSE surfaced = transmitted

\* C27: when an error reply settles a pending promise or fails a live
\* subscription, the caller gets an Error with the message, code and stack
\* that were transmitted (no code when none was) if the error was an object,
\* and the transmitted value itself if it was a primitive.
C27_ErrorReplySurfaces ==
  [][\A msg \in ErrorMessages :
       msg.hadError /\ HandleSocketMessage(msg)
         => /\ \A c \in DOMAIN calls :
                 /\ calls[c].id = msg.requestId
                 /\ calls[c].promise.how = "pending"
                 /\ HasListener(listeners, calls[c].id)
                 => /\ calls'[c].promise.how = "rejected"
                    /\ SurfacedAs(msg.error, calls'[c].promise.error)
            /\ \A s \in DOMAIN subs :
                 subs[s].requestId = msg.requestId /\ subs[s].state = "live"
                 => /\ subs'[s].state = "errored"
                    /\ SurfacedAs(msg.error, subs'[s].error)]_vars

\* A promise was rejected with an Error that has a code, a subscription failed
\* with a primitive.
C27_Witness ==
  /\ \E c \in DOMAIN calls :
       /\ calls[c].promise.how = "rejected"
       /\ calls[c].promise.error.kind = "Error"
       /\ calls[c].promise.error.code # NoData
  /\ \E s \in DOMAIN subs :
       subs[s].state = "errored" /\ subs[s].error.kind = "string"

\* ------------------------------------------------------------------------ C28

\* The positions in messages of the busy and of the done messages of call w.
BusyOf(w) ==
  {i \in DOMAIN messages : messages[i].status = "busy" /\ messages[i].work = w}
DoneOf(w) ==
  {i \in DOMAIN messages : messages[i].status = "done" /\ messages[i].work = w}
\* The done messages published after busy message i with its id.
DoneFor(i) ==
  {j \in DoneOf(messages[i].work) : j > i /\ messages[j].id = messages[i].id}

\* Every busy id differs from the earlier ones, and every done message has
\* the id of an earlier busy message of the same call.
BusyIdsAreNew ==
  /\ \A i, j \in DOMAIN messages :
       i < j /\ messages[i].status = "busy" /\ messages[j].status = "busy"
         => messages[i].id # messages[j].id
  /\ \A w \in DOMAIN works : \A j \in DoneOf(w) : \E i \in BusyOf(w) : j \in DoneFor(i)

MissingLabels ==
  {l \in {"Profile Name", "Username", "Server", "Initial Directory", "SSH Port",
          "Authentication Method", PrivateKeyLabel} :
     \/ l = "Profile Name" /\ form.profileName = Empty
     \/ l = "Username" /\ form.username = Empty
     \/ l = "Server" /\ form.server = Empty
     \/ l = "Initial Directory" /\ form.cwd = Empty
     \/ l = "SSH Port" /\ form.sshPort = Empty
     \/ l = "Authentication Method" /\ form.authMethod = Empty
     \/ l = PrivateKeyLabel /\ form.authMethod = "PRIVATE_KEY"
                                /\ form.pathToPrivateKey = Empty}

\* C29: validateFormInputs returns a profile exactly when no required field
\* is empty (the private key path being required for PRIVATE_KEY), and
\* otherwise an error naming exactly the missing fields; the params of a
\* profile have no password, and their remote server command is the one given
\* if it is non-empty and not the default, and empty otherwise.
C29_ValidatedExactlyWhenComplete ==
  validation # NotValidated =>
    /\ validation.kind = "profile" <=> MissingLabels = {}
    /\ validation.kind = "error" <=> MissingLabels # {}
    /\ validation.kind = "error" =>
         {validation.errorMessage[i] : i \in DOMAIN validation.errorMessage}
           = MissingLabels
    /\ validation.kind = "profile" =>
         /\ "password" \notin DOMAIN validation.params
         /\ \A k \in DOMAIN validation.params : validation.params[k] # "secret"
         /\ validation.params["remoteServerCommand"] =
              IF form.remoteServerCommand \notin {Empty, DefaultRemoteServerCommand}
                THEN form.remoteServerCommand ELSE Empty
         /\ \A k \in {"username", "server", "cwd", "sshPort", "authMethod"} :
              validation.params[k] = form[k]

\* A complete form with a password and the default command was validated.
C29_Witness ==
  /\ validation.kind = "profile"
  /\ form.password # Empty
  /\ form.authMethod = "PASSWORD"
  /\ form.remoteServerCommand = DefaultRemoteServerCommand

\* ------------------------------------------------------------------------ C30

\* The frames submitted for a client, those a send callback has acknowledged
\* (on any socket), and those the client's queue holds.
SubmittedFor(id) == {d \in DOMAIN submitted : submitted[d] = id}
Acknowledged == {wire[i].data : i \in DOMAIN wire}
Queued(id) ==
  {clients[id].messageQueue[i].data : i \in DOMAIN clients[id].messageQueue}

\* C30 as stated: the queue of a client holds, in submission order, exactly
\* the frames submitted for it that no send callback has acknowledged.
C30_QueueIsTheUnacknowledged ==
  \A id \in DOMAIN clients :
    /\ InSubmissionOrder(QueueData(clients[id].messageQueue))
    /\ Queued(id) = SubmittedFor(id) \ Acknowledged

\* C30 amended: the queue of a client holds frames submitted for it, each
\* once, in submission order; it holds every such frame that has not been
\* acknowledged; and a frame it holds has not been acknowledged on the socket
\* that last attached to the client (it may have been on an earlier one,
\* after the queue was handed to the next socket).
C30_QueueHoldsTheUnacknowledged ==
  \A id \in DOMAIN clients :
    /\ InSubmissionOrder(QueueData(clients[id].messageQueue))
    /\ SubmittedFor(id) \ Acknowledged \subseteq Queued(id)
    /\ Queued(id) \subseteq SubmittedFor(id)
    /\ \A i \in DOMAIN wire :
         wire[i].data \in Queued(id) => wire[i].socket # latest[id]

\* A frame acknowledged on a replaced socket is still queued, behind it
\* nothing is missing: an earlier frame was acknowledged and has left.
C30_Witness ==
  \E id \in DOMAIN clients :
    /\ Queued(id) \cap Acknowledged # {}
    /\ SubmittedFor(id) \ Queued(id) # {}
    /\ clients[id].socket # NoSocket

\* ------------------------------------------------------------------ C31, C32

\* C31: the close event of a socket makes absent the socket of the session
\* it is attached to and changes no other session: none when the socket was
\* replaced or never sent its first frame. And a session's socket becomes
\* absent only in a step that is the close event of that socket.
C31_OnlyTheAttachedSocketDetaches ==
  [][/\ \A socket \in DOMAIN sockets :
          OnClose(socket) =>
            /\ \A id \in DOMAIN clients :
                 clients'[id].socket =
                   IF clients[id].socket = socket THEN NoSocket
                                                  ELSE clients[id].socket
            /\ sockets[socket].client = NoClient => clients' = clients
     /\ \A id \in DOMAIN clients :
          clients[id].socket # NoSocket /\ clients'[id].socket = NoSocket =>
            /\ sockets[clients[id].socket].state = "open"
            /\ sockets'[clients[id].socket].state = "closed"
    ]_vars

\* The close event of a replaced socket has come and the session still has
\* the socket that replaced it.
C31_Witness ==
  \E id \in DOMAIN clients, replaced \in DOMAIN sockets :
    /\ sockets[replaced].client = id
    /\ sockets[replaced].state = "closed"
    /\ latest[id] # replaced
    /\ clients[id].socket = latest[id]

\* C32 as stated: every frame dispatched for a session came from the socket
\* attached to the session when it was dispatched.
C32_DispatchedFromTheAttachedSocket ==
  \A d \in dispatched : d.attached

\* C32 amended: a frame is dispatched from a socket that named the session in
\* its first frame and whose close event has not come: the attached socket,
\* or a replaced one that the server has closed but that is not closed yet.
C32_DispatchedFromAnUnclosedSocket ==
  [][\A socket \in DOMAIN sockets, frame \in WellFormed :
       OnSocketMessage(socket, frame) =>
         /\ sockets[socket].client \in DOMAIN clients
         /\ \/ clients[sockets[socket].client].socket = socket
            \/ /\ sockets[socket].state = "closing"
               /\ latest[sockets[socket].client] # socket
         /\ \E d \in dispatched' :
              /\ d.socket = socket
              /\ d.client = sockets[socket].client
              /\ d.attached <=> clients[d.client].socket = socket
    ]_vars

\* A frame of a replaced socket was dispatched after the replacement, and a
\* frame of the socket that replaced it as well.
C32_Witness ==
  \E d, e \in dispatched :
    /\ ~d.attached
    /\ e.attached
    /\ d.client = e.client
    /\ latest[d.client] = e.socket

\* ------------------------------------------------------------------------ C33

\* How many of the first n frames sent are DisposeObservable frames of
\* requestId, and how many are request frames of it.
DisposeFrames(requestId, n) ==
  Cardinality({i \in 1..n : /\ sent[i].type = "DisposeObservable"
                            /\ sent[i].requestId = requestId})
RequestFrames(requestId, n) ==
  Cardinality({i \in 1..n : /\ sent[i].type # "DisposeObservable"
                            /\ sent[i].requestId = requestId})
\* The subscriptions made with requestId, and those of them that have ended.
SubscriptionsOf(requestId) ==
  {s \in DOMAIN subs : subs[s].requestId = requestId}
EndedOf(requestId) ==
  {s \in SubscriptionsOf(requestId) : subs[s].state # "live"}

\* C33: for an observable call, one request frame was sent per subscription
\* and one DisposeObservable frame with the same requestId per subscription
\* that has ended (unsubscribed, completed or failed), none for a live one;
\* a DisposeObservable frame never comes before the request frame it answers;
\* no frame at all bears the requestId of an observable never subscribed; and
\* no DisposeObservable frame bears the requestId of another kind of call.
C33_OneDisposePerEndedSubscription ==
  \A c \in DOMAIN calls :
    IF calls[c].returnType = "observable"
      THEN /\ RequestFrames(calls[c].id, Len(sent))
                = Cardinality(SubscriptionsOf(calls[c].id))
           /\ DisposeFrames(calls[c].id, Len(sent))
                = Cardinality(EndedOf(calls[c].id))
           /\ \A n \in 1..Len(sent) :
                DisposeFrames(calls[c].id, n) <= RequestFrames(calls[c].id, n)
      ELSE DisposeFrames(calls[c].id, Len(sent)) = 0

\* One subscription ended with the stream and another by unsubscription, and
\* the last two frames sent are DisposeObservable frames.
C33_Witness ==
  /\ \E s, t \in DOMAIN subs :
       /\ subs[s].state \in {"completed", "errored"}
       /\ subs[t].state = "unsubscribed"
  /\ sent[Len(sent)].type = "DisposeObservable"
  /\ sent[Len(sent) - 1].type = "DisposeObservable"

\* ------------------------------------------------------------------------ C34

\* C34: of two subscriptions to the observable of one call, the unsubscription
\* of one leaves the listener of the other, live, registered, and a live
\* subscription is given every 'next' frame of its requestId that arrives.
C34_SubscriptionsAreIndependent ==
  [][\A s, t \in DOMAIN subs :
       s # t /\ subs[s].call = subs[t].call /\ subs[t].state = "live" =>
         /\ Unsubscribe(s) =>
              \E i \in DOMAIN listeners' :
                listeners'[i].kind = "on" /\ listeners'[i].ref = t
         /\ \A msg \in RpcMessages :
              /\ IsNext(msg)
              /\ msg.requestId = subs[t].requestId
              /\ HandleSocketMessage(msg)
              => subs'[t].received = Append(subs[t].received, msg.result.data)
    ]_vars

\* ------------------------------------------------------------------------ C35

\* The runners created and not disposed.
LiveRunners == {i \in DOMAIN runners : ~runners[i].disposed}

\* C35: at most one process runner is created and not disposed, and when no
\* start is suspended such a runner exists exactly when the manager has a
\* current runner, which it then is.
C35_AtMostOneLiveRunner ==
  /\ Cardinality(LiveRunners) <= 1
  /\ starting = <<>> =>
       LiveRunners = IF processRunner = NoRunner THEN {} ELSE {processRunner}

\* ------------------------------------------------------------------------ C36

\* The busy messages of call w that have no done message yet.
Outstanding(w) == {i \in BusyOf(w) : DoneFor(i) = {}}

\* Call w has a message outstanding exactly while the active pane item shows
\* its file and its disposable is not disposed, and never more than one.
OutstandingWhileActive ==
  \A w \in DOMAIN works :
    works[w].onlyForFile # NoFile =>
      /\ Cardinality(Outstanding(w)) <= 1
      /\ Outstanding(w) # {}
           <=> ~works[w].disposed /\ activeItem = works[w].onlyForFile

\* C36: for a call with onlyForFile, a message is outstanding exactly while
\* the active pane item shows that file and the disposable is not disposed,
\* at most one at a time; a change to an item not showing the file publishes
\* the done of the outstanding busy, disposing does so too, and after the
\* disposal no busy of the call is published.
C36_OutstandingWhileActiveAndUndisposed ==
  [][/\ OutstandingWhileActive
     /\ OutstandingWhileActive'
     /\ \A w \in DOMAIN works :
          works[w].onlyForFile # NoFile =>
            /\ \A i \in Outstanding(w) :
                 \/ i \in Outstanding(w)'
                 \/ /\ \E j \in DOMAIN messages' :
                         /\ j > Len(messages)
                         /\ messages'[j] = [status |-> "done",
                                            id |-> messages[i].id, work |-> w]
                    /\ \/ activeItem' # works[w].onlyForFile
                       \/ ~works[w].disposed /\ works'[w].disposed
            /\ works[w].disposed => BusyOf(w)' = BusyOf(w) /\ works'[w].disposed
    ]_vars

\* A call for a file is disposed after its message was shown, hidden and
\* shown again, and the file is the active item once more.
C36_Witness ==
  \E w \in DOMAIN works :
    /\ works[w].onlyForFile # NoFile
    /\ works[w].disposed
    /\ activeItem = works[w].onlyForFile
    /\ Cardinality(BusyOf(w)) = 2
    /\ Cardinality(DoneOf(w)) = 2

\* ------------------------------------------------------------------ C37, C38

\* The positions of effects at which the call was made.
CallsOf(call) == {i \in DOMAIN effects : effects[i].call = call}

\* The four fields ok() tests are all non-empty.
Complete(fields) ==
  /\ fields.username # Empty
  /\ fields.server # Empty
  /\ fields.cwd # Empty
  /\ fields.remoteServerCommand # Empty

\* C37: ok() starts a connect and moves to WAITING_FOR_CONNECTION only from
\* REQUEST_CONNECTION_DETAILS with the four fields non-empty; with an empty
\* field the mode stays and no connect is started; in the two waiting modes
\* ok() changes nothing; a finish is invoked only by ok() in
\* REQUEST_AUTHENTICATION_DETAILS, and it is the finish of the latest request,
\* after which the mode is WAITING_FOR_AUTHENTICATION.
C37_OkConnectsAndFinishesByMode ==
  [][/\ \A fields \in DialogFields :
          Ok(fields) =>
            /\ mode = REQUEST_CONNECTION_DETAILS /\ Complete(fields) =>
                 /\ mode' = WAITING_FOR_CONNECTION
                 /\ effects' = Append(effects, Connect)
            /\ mode = REQUEST_CONNECTION_DETAILS /\ ~Complete(fields) =>
                 /\ mode' = REQUEST_CONNECTION_DETAILS
                 /\ effects' = effects
            /\ mode \in {WAITING_FOR_CONNECTION, WAITING_FOR_AUTHENTICATION} =>
                 UNCHANGED <<mode, finish, connecting, dialogOpen, effects>>
            /\ mode = REQUEST_AUTHENTICATION_DETAILS =>
                 /\ mode' = WAITING_FOR_AUTHENTICATION
                 /\ effects' = Append(effects, Finish(finish))
     /\ CallsOf("sshHandshake.connect")' # CallsOf("sshHandshake.connect") =>
          /\ mode = REQUEST_CONNECTION_DETAILS
          /\ mode' = WAITING_FOR_CONNECTION
          /\ \E fields \in DialogFields : Complete(fields) /\ Ok(fields)
     /\ mode' = WAITING_FOR_CONNECTION /\ mode # WAITING_FOR_CONNECTION =>
          CallsOf("sshHandshake.connect")' # CallsOf("sshHandshake.connect")
     /\ CallsOf("finish")' # CallsOf("finish") =>
          /\ mode = REQUEST_AUTHENTICATION_DETAILS
          /\ mode' = WAITING_FOR_AUTHENTICATION
          /\ finish # NoFinish
          /\ \E fields \in DialogFields : Ok(fields)
    ]_vars

\* A connect was started, an authentication was requested and ok() answered
\* it.
C37_Witness ==
  /\ mode = WAITING_FOR_AUTHENTICATION
  /\ CallsOf("sshHandshake.connect") # {}
  /\ \E i \in CallsOf("finish") : effects[i].finish # NoFinish

\* C38: cancel() always cancels the handshake; in WAITING_FOR_CONNECTION it
\* returns to REQUEST_CONNECTION_DETAILS and neither calls onCancel nor closes;
\* in every other mode it calls onCancel, then closes, and leaves the mode.
C38_CancelReturnsOrCloses ==
  [][Cancel =>
       IF mode = WAITING_FOR_CONNECTION
         THEN /\ effects' = Append(effects, CancelHandshake)
              /\ mode' = REQUEST_CONNECTION_DETAILS
              /\ dialogOpen'
         ELSE /\ effects' = effects \o <<CancelHandshake, OnCancel, CloseDialog>>
              /\ mode' = mode
              /\ ~dialogOpen'
    ]_vars

\* A connect was cancelled, which left the dialog open, and a later cancel,
\* in the mode asking for authentication details, closed it.
C38_Witness ==
  /\ ~dialogOpen
  /\ mode = REQUEST_AUTHENTICATION_DETAILS
  /\ Cardinality(CallsOf("sshHandshake.cancel")) = 2
  /\ Cardinality(CallsOf("onCancel")) = 1
  /\ effects[Len(effects)] = CloseDialog

\* ------------------------------------------------------------------------ C39

\* The positions in published of the updates for HackLanguage h, and of the
\* invalidations made for it by _invalidatePathsForHackLanguage.
UpdatesFor(h) ==
  {i \in DOMAIN published :
     published[i].kind = "update" /\ published[i].language = h}
InvalidationsFor(h) ==
  {j \in DOMAIN published :
     published[j].kind = "invalidation" /\ published[j].language = h}

\* Update i is the latest thing published for its HackLanguage before j.
LatestBefore(i, j) ==
  /\ i < j
  /\ \A k \in DOMAIN published :
       i < k /\ k < j => published[k].language # published[i].language

\* Invalidation j was made by a run, which publishes its update next and
\* has invalidated the editor's path just before.
ByRun(j) == j < Len(published) /\ published[j + 1].kind = "update"
InvalidatedAt(j) ==
  published[j].filePaths \cup
    IF ByRun(j) THEN published[j - 1].filePaths ELSE {}

\* The provider holds recorded paths for a HackLanguage exactly when the
\* latest thing published for it is an update, whose paths they are.
RecordedSinceTheLatestUpdate ==
  \A h \in HackLanguages :
    LET about == UpdatesFor(h) \cup InvalidationsFor(h) IN
    IF \E i \in UpdatesFor(h) : \A k \in about : k <= i
      THEN \E i \in UpdatesFor(h) :
             /\ \A k \in about : k <= i
             /\ hackLanguageToFilePaths[h] =
                  [present |-> TRUE, paths |-> published[i].recorded]
      ELSE hackLanguageToFilePaths[h] = NoPaths

\* C39 as stated: the paths recorded at an update for a HackLanguage are all
\* invalidated by the next invalidation made for it, in a run before its
\* update and in invalidateProjectPath, and the provider holds no recorded
\* paths from an invalidation to the next update.
C39_RecordedPathsAreInvalidated ==
  /\ RecordedSinceTheLatestUpdate
  /\ \A h \in HackLanguages : \A i \in UpdatesFor(h), j \in InvalidationsFor(h) :
       LatestBefore(i, j) => published[i].recorded \subseteq InvalidatedAt(j)

\* C39 amended: as stated when isHackAvailable() of the HackLanguage returns
\* true at the invalidation, which then names exactly the recorded paths;
\* when it returns false the invalidation names no path, and the recorded
\* paths are dropped all the same.
C39_RecordedPathsAreInvalidatedIfAvailable ==
  /\ RecordedSinceTheLatestUpdate
  /\ \A h \in HackLanguages : \A j \in InvalidationsFor(h) :
       /\ ~published[j].available => published[j].filePaths = {}
       /\ \A i \in UpdatesFor(h) :
            LatestBefore(i, j) /\ published[j].available =>
              published[j].filePaths = published[i].recorded

\* Two runs were interleaved and published for one HackLanguage, which was
\* available: the second invalidated the two paths the first had recorded.
C39_Witness ==
  /\ \A r \in DOMAIN hackRuns : hackRuns[r].pc = "returned"
  /\ \E h \in HackLanguages : \E i \in UpdatesFor(h), j \in InvalidationsFor(h) :
       /\ LatestBefore(i, j)
       /\ ByRun(j)
       /\ published[j].available
       /\ Cardinality(published[i].recorded) = 2
       /\ published[j].filePaths = published[i].recorded
       /\ ~published[i].recorded \subseteq published[j - 1].filePaths

====
